---- MODULE Spec2Model ----
(***************************************************************************)
(* Model of the RenderScope renderer execution framework:                  *)
(*   - core/registry.py      AdapterRegistry (registration, lazy           *)
(*                           bootstrap, memoized detection snapshot)       *)
(*   - core/runner.py        _MemoryMonitor, run_subprocess,               *)
(*                           InProcessTimer                                *)
(*   - adapters/exceptions.py  RenderError                                 *)
(*   - adapters/*.py         detect(), supported_formats() and render()    *)
(*                           of the seven adapters                         *)
(* Specifications:                                                         *)
(*   Spec         the registry driven by one caller thread                 *)
(*   SpecEngine   one run of an execution engine together with its         *)
(*                background monitor thread, the spawned process and the   *)
(*                clock                                                    *)
(*   SpecError    the construction of one RenderError                      *)
(*   SpecFormats  the calls of supported_formats() of one adapter and the  *)
(*                caller's writes to the lists returned                    *)
(*   SpecRender   one call of detect() or render() of one adapter in one   *)
(*                environment                                              *)
(*   SpecTimeout  SpecEngine restricted to a run_subprocess call with a    *)
(*                timeout whose command starts, with the fairness the      *)
(*                interpreter and the clock give                           *)
(*   SpecPaths    the detect() and render() calls on one instance of a     *)
(*                dual-path adapter while the environment changes          *)
(*   SpecThreads  the registry shared by two threads that call detect_all  *)
(*                and one that calls register and clear_cache              *)
(***************************************************************************)
EXTENDS Integers, Sequences, FiniteSets, TLC

None == "None"

(***************************************************************************)
(* Bounds of the model.                                                    *)
(***************************************************************************)
\* snapshot dicts that one behaviour may allocate
MaxDicts == 2
\* adapter modules of _ADAPTER_MODULES that are modelled (a prefix of the list)
MaxModules == 2

(***************************************************************************)
(* adapters/__init__.py                                                    *)
(***************************************************************************)
AllAdapterModules ==
    <<"pbrt", "mitsuba", "cycles", "luxcore", "appleseed", "filament", "ospray">>

ADAPTER_MODULES ==
    SubSeq(AllAdapterModules, 1,
           IF MaxModules < Len(AllAdapterModules) THEN MaxModules
                                                  ELSE Len(AllAdapterModules))

ModuleSet == {ADAPTER_MODULES[i] : i \in 1..Len(ADAPTER_MODULES)}

\* the class a module registers at import time (its _register())
ModuleClass(m) == "cls:" \o m

\* an adapter class a caller registers by hand; it reports the name of a
\* built-in adapter
UserClasses == {"_FakePbrt"}

Classes == UserClasses \cup {ModuleClass(m) : m \in ModuleSet}

\* RendererAdapter.name of an instance of the class
ClassName(cls) ==
    CASE cls = "_FakePbrt" -> "pbrt"
      [] OTHER             -> CHOOSE m \in ModuleSet : ModuleClass(m) = cls

Names == {ClassName(c) : c \in Classes}

\* what the try body of detect_all can do for one adapter: detect() returns a
\* version, detect() returns None, or the constructor or detect() raises
Outcomes == {"4.0.0", None, "raises"}
Raising == {"raises"}

\* what importing an adapter module can do
ImportOutcomes == {"ok", "fails"}

VARIABLES
    \* ---- AdapterRegistry (the process-wide singleton) ----
    adapters,         \* _adapters: insertion-ordered dict, a sequence of [name, cls]
    detection_cache,  \* _detection_cache: NoDict (None) or a dict object [id, map]
    initialized,      \* _initialized
    sys_modules,      \* adapter modules already imported in this process
    nextId,           \* identity of the next dict object to be allocated
    \* ---- what the caller observed ----
    lastOp,           \* the registry operation that ran last
    ret,              \* what it returned
    lastDict,         \* the dict the last detect_all returned, while no register or
                      \* clear_cache call has followed it
    prevDict,         \* after a detect_all: the dict the detect_all before it returned
    pending,          \* the name last registered since the last detect_all, or None
    between,          \* after a detect_all: pending as it was when the call started
    lastRegistered,   \* name -> class of the last completed register under it
    boot              \* what each import of _register_all did, right after the
                      \* operation that ran the bootstrap; else <<>>

regVars == <<adapters, detection_cache, initialized, sys_modules, nextId,
             lastOp, ret, lastDict, prevDict, pending, between,
             lastRegistered, boot>>

NoPending == None

EmptyMap == [n \in {} |-> None]

\* the value None of a variable that otherwise holds a dict object: dict
\* objects carry the identities 1, 2, ...
NoDict == [id |-> 0, map |-> EmptyMap]

(***************************************************************************)
(* Helpers on the insertion-ordered dict                                   *)
(***************************************************************************)
KeysOf(ads) == {ads[i].name : i \in 1..Len(ads)}

IndexOf(ads, name) == CHOOSE i \in 1..Len(ads) : ads[i].name = name

\* dict.get(name): the class stored under name, or None
Lookup(ads, name) ==
    IF name \in KeysOf(ads) THEN ads[IndexOf(ads, name)].cls ELSE None

\* self._adapters[name] = adapter_cls : overwrite in place, else append
DictStore_append(ads, name, cls) == Append(ads, [name |-> name, cls |-> cls])

DictStore(ads, name, cls) ==
    IF name \in KeysOf(ads)
    THEN [ads EXCEPT ![IndexOf(ads, name)] = [name |-> name, cls |-> cls]]
    ELSE Append(ads, [name |-> name, cls |-> cls])

(***************************************************************************)
(* AdapterRegistry.register, on a registry state record                    *)
(*   st = [adapters, cache, initialized, mods, pending, lastReg, lastDict] *)
(***************************************************************************)
\* line 62: self._detection_cache = None
CacheAfterRegister_kept(cache) == cache

CacheAfterRegister(cache) == NoDict

\* register(adapter_cls) when the constructor on line 56 returns
RegisterOn(st, cls) ==
    [st EXCEPT
        !.adapters = DictStore(st.adapters, ClassName(cls), cls),
        !.cache    = CacheAfterRegister(st.cache),
        !.pending  = ClassName(cls),
        !.lastDict = NoDict,
        !.lastReg  = [n \in DOMAIN st.lastReg \cup {ClassName(cls)} |->
                        IF n = ClassName(cls) THEN cls ELSE st.lastReg[n]]]

(***************************************************************************)
(* _register_all and _ensure_initialized                                   *)
(***************************************************************************)
\* importlib.import_module(m) inside the try of _register_all: a module that
\* is already imported is not executed again; one that fails is skipped
ImportOn(st, m, outcome) ==
    IF m \in st.mods THEN st
    ELSE IF outcome = "ok"
         THEN [RegisterOn(st, ModuleClass(m)) EXCEPT !.mods = @ \cup {m}]
         ELSE st

\* the loop of _register_all: the try is inside the loop body, so a module
\* that fails to import is logged and the loop goes on
RECURSIVE RegisterAllFrom_abort(_, _, _)
RegisterAllFrom_abort(st, i, outs) ==
    IF i > Len(ADAPTER_MODULES) THEN st
    ELSE IF ADAPTER_MODULES[i] \notin st.mods /\ outs[i] # "ok" THEN st
    ELSE RegisterAllFrom_abort(ImportOn(st, ADAPTER_MODULES[i], outs[i]), i + 1, outs)

RECURSIVE RegisterAllFrom(_, _, _)
RegisterAllFrom(st, i, outs) ==
    IF i > Len(ADAPTER_MODULES) THEN st
    ELSE RegisterAllFrom(ImportOn(st, ADAPTER_MODULES[i], outs[i]), i + 1, outs)

RegisterAll(st, outs) == RegisterAllFrom(st, 1, outs)

EnsureInitialized(st, outs) ==
    IF st.initialized THEN st
    ELSE RegisterAll([st EXCEPT !.initialized = TRUE], outs)

\* the outcomes the imports of one bootstrap can have
BootOutcomes == [1..Len(ADAPTER_MODULES) -> ImportOutcomes]

BootChoices == IF initialized THEN {[i \in 1..Len(ADAPTER_MODULES) |-> "ok"]}
               ELSE BootOutcomes

\* what the caller can tell of the imports of a bootstrap: a module that was
\* imported before is found in sys.modules and is not executed
BootSeen(bo) ==
    IF initialized THEN <<>>
    ELSE [i \in 1..Len(ADAPTER_MODULES) |->
            IF ADAPTER_MODULES[i] \in sys_modules THEN "cached" ELSE bo[i]]

RegState ==
    [adapters |-> adapters, cache |-> detection_cache,
     initialized |-> initialized, mods |-> sys_modules,
     pending |-> pending, lastReg |-> lastRegistered, lastDict |-> lastDict]

\* write a registry state record back to the variables
Install(st) ==
    /\ adapters' = st.adapters
    /\ detection_cache' = st.cache
    /\ initialized' = st.initialized
    /\ sys_modules' = st.mods
    /\ pending' = st.pending
    /\ lastRegistered' = st.lastReg
    /\ lastDict' = st.lastDict

(***************************************************************************)
(* AdapterRegistry.detect_all                                              *)
(***************************************************************************)
\* line 108: if self._detection_cache is not None
CacheHit_never(cache) == FALSE

CacheHit(cache) == cache # NoDict

\* the entry the loop body stores for one adapter (lines 113-123)
ProbeEntry(outcome) == IF outcome \in Raising THEN None ELSE outcome

\* the loop of lines 112-123: results so far, adapters probed so far,
\* whether an exception left the loop
RECURSIVE ProbeFrom_abort(_, _, _, _)
ProbeFrom_abort(ads, outs, i, acc) ==
    IF i > Len(ads) THEN acc
    ELSE IF outs[i] \in Raising
         THEN [acc EXCEPT !.probed = Append(@, ads[i].name), !.raised = TRUE]
         ELSE ProbeFrom_abort(ads, outs, i + 1,
                [acc EXCEPT
                   !.map = [n \in DOMAIN acc.map \cup {ads[i].name} |->
                              IF n = ads[i].name THEN ProbeEntry(outs[i])
                                                 ELSE acc.map[n]],
                   !.probed = Append(@, ads[i].name)])

RECURSIVE ProbeFrom(_, _, _, _)
ProbeFrom(ads, outs, i, acc) ==
    IF i > Len(ads) THEN acc
    ELSE ProbeFrom(ads, outs, i + 1,
            [acc EXCEPT
               !.map = [n \in DOMAIN acc.map \cup {ads[i].name} |->
                          IF n = ads[i].name THEN ProbeEntry(outs[i])
                                             ELSE acc.map[n]],
               !.probed = Append(@, ads[i].name)])

ProbeAll(ads, outs) ==
    ProbeFrom(ads, outs, 1, [map |-> EmptyMap, probed |-> <<>>, raised |-> FALSE])

detect_all ==
    \E bo \in BootChoices :
      \E st \in {EnsureInitialized(RegState, bo)} :
        /\ lastOp' = "detect_all"
        /\ boot' = BootSeen(bo)
        /\ between' = st.pending
        /\ prevDict' = st.lastDict
        /\ IF CacheHit(st.cache)
           THEN /\ ret' = [kind |-> "dict", id |-> st.cache.id, map |-> st.cache.map,
                           computed |-> FALSE, probed |-> <<>>, outs |-> <<>>]
                /\ Install([st EXCEPT !.pending = NoPending, !.lastDict = st.cache])
                /\ UNCHANGED nextId
           ELSE /\ nextId <= MaxDicts
                /\ \E outs \in [1..Len(st.adapters) -> Outcomes] :
                     \E res \in {ProbeAll(st.adapters, outs)} :
                       IF res.raised
                       THEN /\ ret' = [kind |-> "raised", probed |-> res.probed,
                                       outs |-> outs]
                            /\ Install([st EXCEPT !.pending = NoPending])
                            /\ UNCHANGED nextId
                       ELSE /\ ret' = [kind |-> "dict", id |-> nextId, map |-> res.map,
                                       computed |-> TRUE, probed |-> res.probed,
                                       outs |-> outs]
                            /\ Install([st EXCEPT
                                          !.cache = [id |-> nextId, map |-> res.map],
                                          !.lastDict = [id |-> nextId, map |-> res.map],
                                          !.pending = NoPending])
                            /\ nextId' = nextId + 1

\* an operation other than detect_all drops the comparison of the last two
\* detect_all calls
Forget == prevDict' = NoDict /\ between' = NoPending

(***************************************************************************)
(* The other registry operations                                           *)
(***************************************************************************)
\* register(adapter_cls): the constructor call of line 56 may raise, and then
\* nothing is stored
register ==
    \E cls \in Classes, ctor \in {"ok", "raises"} :
      /\ lastOp' = "register"
      /\ ret' = [kind |-> IF ctor = "ok" THEN "none" ELSE "raised"]
      /\ Install(IF ctor = "ok" THEN RegisterOn(RegState, cls) ELSE RegState)
      /\ boot' = <<>>
      /\ Forget /\ UNCHANGED nextId

\* get(name): an instance of the class stored under name, or None
get ==
    \E bo \in BootChoices, name \in Names \cup {"nonexistent"},
       ctor \in {"ok", "raises"} :
      \E st \in {EnsureInitialized(RegState, bo)} :
      \E adapter_cls \in {Lookup(st.adapters, name)} :
        /\ lastOp' = "get"
        /\ ret' = IF adapter_cls = None THEN [kind |-> "none", name |-> name]
                  ELSE IF ctor = "raises" THEN [kind |-> "raised", name |-> name]
                  ELSE [kind |-> "instance", name |-> name, cls |-> adapter_cls]
        /\ Install(st)
        /\ boot' = BootSeen(bo)
        /\ Forget /\ UNCHANGED nextId

\* list_all(): [cls() for cls in self._adapters.values()]
list_all ==
    \E bo \in BootChoices, ctor \in {"ok", "raises"} :
      \E st \in {EnsureInitialized(RegState, bo)} :
        /\ lastOp' = "list_all"
        /\ ret' = IF ctor = "raises" /\ Len(st.adapters) > 0
                  THEN [kind |-> "raised"]
                  ELSE [kind |-> "list",
                        items |-> [i \in 1..Len(st.adapters) |-> st.adapters[i].cls]]
        /\ Install(st)
        /\ boot' = BootSeen(bo)
        /\ Forget /\ UNCHANGED nextId

\* clear_cache(), line 135: self._detection_cache = None
CacheAfterClear_kept(cache) == cache

CacheAfterClear(cache) == NoDict

clear_cache ==
    /\ lastOp' = "clear_cache"
    /\ ret' = [kind |-> "none"]
    /\ detection_cache' = CacheAfterClear(detection_cache)
    /\ lastDict' = NoDict
    /\ boot' = <<>>
    /\ Forget
    /\ UNCHANGED <<adapters, initialized, sys_modules, nextId, pending,
                   lastRegistered>>

\* a caller imports one adapter module itself (from renderscope.adapters.pbrt
\* import PBRTAdapter): the module registers its class on first import
import_module ==
    \E m \in ModuleSet, outcome \in ImportOutcomes :
      /\ lastOp' = "import_module"
      /\ ret' = [kind |-> IF m \in sys_modules \/ outcome = "ok" THEN "none"
                          ELSE "raised"]
      /\ Install(ImportOn(RegState, m, outcome))
      /\ boot' = <<>>
      /\ Forget /\ UNCHANGED nextId

RegInit ==
    /\ adapters = <<>>
    /\ detection_cache = NoDict
    /\ initialized = FALSE
    /\ sys_modules = {}
    /\ nextId = 1
    /\ lastOp = "init"
    /\ ret = [kind |-> "none"]
    /\ lastDict = NoDict
    /\ prevDict = NoDict
    /\ pending = NoPending
    /\ between = NoPending
    /\ lastRegistered = EmptyMap
    /\ boot = <<>>

RegNext ==
    \/ register
    \/ get
    \/ list_all
    \/ detect_all
    \/ clear_cache
    \/ import_module

(***************************************************************************)
(* core/runner.py: bounds and inputs of the execution engines              *)
(***************************************************************************)
\* last instant of the clock
MaxTime == 4
\* largest timeout passed to run_subprocess, in clock ticks
MaxTimeout == 2
\* largest memory sample, in megabytes
MaxMem == 2
\* clock ticks in a tenth of a second (the unit the timeout message prints)
TicksPerTenth == 3

\* exit codes the spawned command may end with
ExitCodes == {0, 42}

\* an optional number: <<>> is None, <<x>> is the number x
NoNum == <<>>
Num(x) == <<x>>
Val(o) == o[1]

\* the timeout argument: None, or a number of ticks
Timeouts == {NoNum} \cup {Num(t) : t \in 1..MaxTimeout}

\* what subprocess.Popen does with the command: it starts, it raises
\* FileNotFoundError, or it raises another OSError (PermissionError, ...)
CmdKinds == {"starts", "not_found", "os_error"}

\* how the region bracketed by an InProcessTimer ends
ExitKinds == {"return", "early_return", "raise"}

VARIABLES
    engine,      \* "subprocess" (run_subprocess), "inprocess" (InProcessTimer), "none"
    pc,          \* position of the calling thread
    now,         \* the clock (time.perf_counter), in ticks
    cmdKind,     \* input: what Popen does with cmd
    timeout,     \* input: the timeout argument
    start_time,  \* start_time / self._start_time
    deadline,    \* end time of communicate(timeout=timeout), or None
    proc,        \* the spawned process
    desc,        \* a descendant of it: "none", "alive" (it holds the output pipes
                 \* it inherited), "detached" (alive, its copies closed), "gone"
    eof_at,      \* instant at which both output pipes reached end-of-file, or None
    mon,         \* the _MemoryMonitor and its thread
    elapsed,     \* the local elapsed, or None
    timed_out,   \* communicate raised TimeoutExpired
    result,      \* what run_subprocess returned or raised
    timer,       \* InProcessTimer._result
    exitKind,    \* how the bracketed region ended, or None
    readLive     \* values read into the result while the monitor could still update

engVars == <<engine, pc, now, cmdKind, timeout, start_time, deadline, proc, desc,
             eof_at, mon, elapsed, timed_out, result, timer, exitKind, readLive>>

NoProc == [state |-> "none", returncode |-> NoNum, exit_at |-> NoNum, killed |-> FALSE]

\* _MemoryMonitor.__init__: peak 0.0, event clear, thread not started
NewMonitor == [pc |-> "new", peak |-> 0, stop_event |-> FALSE, mb |-> 0, stops |-> 0]

NoResult == [kind |-> "none"]

\* InProcessTimerResult(): all fields 0.0
NewTimerResult == [elapsed_seconds |-> 0, peak_memory_mb |-> 0, baseline_memory_mb |-> 0]

(***************************************************************************)
(* The clock, the spawned process and its descendant                       *)
(***************************************************************************)
EOF(p, d) == p.state = "exited" /\ d # "alive"

EofAt(p, d) == IF EOF(p, d) /\ eof_at = NoNum THEN Num(now) ELSE eof_at

Tick ==
    /\ pc # "done"
    /\ now < MaxTime
    /\ now' = now + 1
    /\ UNCHANGED <<engine, pc, cmdKind, timeout, start_time, deadline, proc, desc,
                   eof_at, mon, elapsed, timed_out, result, timer, exitKind, readLive>>

\* the command ends by itself with some exit code
ProcExit ==
    /\ proc.state = "running"
    /\ \E code \in ExitCodes :
         proc' = [proc EXCEPT !.state = "exited", !.returncode = Num(code),
                              !.exit_at = Num(now)]
    /\ eof_at' = EofAt(proc', desc)
    /\ UNCHANGED <<engine, pc, now, cmdKind, timeout, start_time, deadline, desc,
                   mon, elapsed, timed_out, result, timer, exitKind, readLive>>

\* the command starts a descendant, which inherits stdout and stderr
ProcFork ==
    /\ proc.state = "running"
    /\ desc = "none"
    /\ desc' = "alive"
    /\ UNCHANGED <<engine, pc, now, cmdKind, timeout, start_time, deadline, proc,
                   eof_at, mon, elapsed, timed_out, result, timer, exitKind, readLive>>

\* the descendant closes its copies of the pipes (it redirects its output or
\* turns into a daemon) and runs on
DescDetach ==
    /\ desc = "alive"
    /\ desc' = "detached"
    /\ eof_at' = EofAt(proc, desc')
    /\ UNCHANGED <<engine, pc, now, cmdKind, timeout, start_time, deadline, proc,
                   mon, elapsed, timed_out, result, timer, exitKind, readLive>>

\* the descendant ends, which closes the copies of the pipes it still holds
DescExit ==
    /\ desc \in {"alive", "detached"}
    /\ desc' = "gone"
    /\ eof_at' = EofAt(proc, desc')
    /\ UNCHANGED <<engine, pc, now, cmdKind, timeout, start_time, deadline, proc,
                   mon, elapsed, timed_out, result, timer, exitKind, readLive>>

(***************************************************************************)
(* _MemoryMonitor                                                          *)
(***************************************************************************)
\* the monitored process can be sampled: the caller's own process always, the
\* spawned one while it runs
Samplable == engine = "inprocess" \/ proc.state = "running"

\* the polling loop may still assign _peak_mb
CanUpdate(m) ==
    \/ m.pc \in {"sample", "update"}
    \/ m.pc \in {"init", "check", "wait"} /\ ~m.stop_event

\* _run, line 99: psutil.Process(pid), NoSuchProcess ends the thread
MonInit ==
    /\ mon.pc = "init"
    /\ \/ mon' = [mon EXCEPT !.pc = "check"]
       \/ ~Samplable /\ mon' = [mon EXCEPT !.pc = "done"]
    /\ UNCHANGED <<engine, pc, now, cmdKind, timeout, start_time, deadline, proc, desc,
                   eof_at, elapsed, timed_out, result, timer, exitKind, readLive>>

\* line 103: while not self._stop_event.is_set()
MonCheck ==
    /\ mon.pc = "check"
    /\ mon' = [mon EXCEPT !.pc = IF mon.stop_event THEN "done" ELSE "sample"]
    /\ UNCHANGED <<engine, pc, now, cmdKind, timeout, start_time, deadline, proc, desc,
                   eof_at, elapsed, timed_out, result, timer, exitKind, readLive>>

\* lines 105-115: read the resident set sizes; NoSuchProcess leaves the loop
MonSample ==
    /\ mon.pc = "sample"
    /\ IF Samplable
       THEN \E mb \in 1..MaxMem : mon' = [mon EXCEPT !.pc = "update", !.mb = mb]
       ELSE mon' = [mon EXCEPT !.pc = "done"]
    /\ UNCHANGED <<engine, pc, now, cmdKind, timeout, start_time, deadline, proc, desc,
                   eof_at, elapsed, timed_out, result, timer, exitKind, readLive>>

\* lines 116-117: if mb > self._peak_mb: self._peak_mb = mb
MonUpdate ==
    /\ mon.pc = "update"
    /\ mon' = [mon EXCEPT !.pc = "wait",
                          !.peak = IF mon.mb > mon.peak THEN mon.mb ELSE mon.peak]
    /\ UNCHANGED <<engine, pc, now, cmdKind, timeout, start_time, deadline, proc, desc,
                   eof_at, elapsed, timed_out, result, timer, exitKind, readLive>>

\* line 121: self._stop_event.wait(self._poll_interval) returns
MonWait ==
    /\ mon.pc = "wait"
    /\ mon' = [mon EXCEPT !.pc = "check"]
    /\ UNCHANGED <<engine, pc, now, cmdKind, timeout, start_time, deadline, proc, desc,
                   eof_at, elapsed, timed_out, result, timer, exitKind, readLive>>

\* start(), line 89
MonitorStarted(m) == [m EXCEPT !.pc = "init"]

\* stop(), line 93: self._stop_event.set()
StopSignalled(m) == [m EXCEPT !.stop_event = TRUE, !.stops = @ + 1]

\* stop(), line 94: self._thread.join(timeout=2.0) returns when the thread has
\* ended, or after two seconds while the thread is still inside a psutil call
JoinReturns(m) == m.pc = "done" \/ m.pc \in {"init", "sample"}

\* the fields read into a result at this step that the loop can still change
LiveReads(fields) == IF CanUpdate(mon) THEN readLive \cup fields ELSE readLive

(***************************************************************************)
(* run_subprocess                                                          *)
(***************************************************************************)
\* f"{elapsed:.1f}": a number of ticks printed in tenths of a second, rounded
\* to the nearest tenth, a tie going to the even neighbour
Format1f_floor(e) == e \div TicksPerTenth

Format1f(e) ==
    LET q == e \div TicksPerTenth
        r == e % TicksPerTenth
    IN IF 2 * r < TicksPerTenth THEN q
       ELSE IF 2 * r > TicksPerTenth THEN q + 1
       ELSE IF q % 2 = 0 THEN q ELSE q + 1

\* lines 166-175: what the Popen call does with each kind of command
SpawnOutcome(kind) ==
    CASE kind = "starts"    -> "process"
      [] kind = "not_found" -> "FileNotFoundError"
      [] OTHER              -> "OSError"

\* line 175: raise FileNotFoundError(f"Command not found: {cmd[0]}")
NotFoundRaised_zeroExit ==
    [kind |-> "result", exit_code |-> 0, elapsed_seconds |-> 0, peak_memory_mb |-> 0]

NotFoundRaised == [kind |-> "FileNotFoundError", msg |-> "Command not found"]

\* what the call does once communicate has returned with the process's return
\* code (lines 195-203): it returns a SubprocessResult whatever the code is
CompletedKind_checked(code) == IF code = 0 THEN "result" ELSE "CalledProcessError"

CompletedKind(code) == "result"

\* lines 187-191: the RenderError of the timeout path
TimeoutError(e, limit) ==
    [kind |-> "RenderError", msg |-> "Process timed out after",
     after_tenths |-> Format1f(e), limit |-> limit, exit_code |-> 0 - 1]

\* line 164
rs_start ==
    /\ pc = "rs_start"
    /\ start_time' = now
    /\ pc' = "rs_popen"
    /\ UNCHANGED <<engine, now, cmdKind, timeout, deadline, proc, desc, eof_at, mon,
                   elapsed, timed_out, result, timer, exitKind, readLive>>

\* lines 166-175
rs_popen ==
    /\ pc = "rs_popen"
    /\ CASE SpawnOutcome(cmdKind) = "process" ->
              /\ proc' = [NoProc EXCEPT !.state = "running"]
              /\ pc' = "rs_monitor"
              /\ UNCHANGED result
         [] SpawnOutcome(cmdKind) = "FileNotFoundError" ->
              /\ result' = NotFoundRaised
              /\ pc' = "done"
              /\ UNCHANGED proc
         [] OTHER ->
              /\ result' = [kind |-> "OSError"]
              /\ pc' = "done"
              /\ UNCHANGED proc
    /\ UNCHANGED <<engine, now, cmdKind, timeout, start_time, deadline, desc, eof_at,
                   mon, elapsed, timed_out, timer, exitKind, readLive>>

\* lines 177-178
rs_monitor ==
    /\ pc = "rs_monitor"
    /\ mon' = MonitorStarted(NewMonitor)
    /\ pc' = "rs_communicate"
    /\ UNCHANGED <<engine, now, cmdKind, timeout, start_time, deadline, proc, desc,
                   eof_at, elapsed, timed_out, result, timer, exitKind, readLive>>

\* line 181: communicate(timeout=timeout) fixes its end time
rs_communicate ==
    /\ pc = "rs_communicate"
    /\ deadline' = IF timeout = NoNum THEN NoNum ELSE Num(now + Val(timeout))
    /\ pc' = "rs_wait"
    /\ UNCHANGED <<engine, now, cmdKind, timeout, start_time, proc, desc, eof_at, mon,
                   elapsed, timed_out, result, timer, exitKind, readLive>>

\* line 181: communicate returns, the process has exited and both pipes were
\* read to end-of-file before the end time
rs_communicate_returns ==
    /\ pc = "rs_wait"
    /\ EOF(proc, desc)
    /\ deadline # NoNum => Val(eof_at) <= Val(deadline)
    /\ pc' = "rs_finally"
    /\ UNCHANGED <<engine, now, cmdKind, timeout, start_time, deadline, proc, desc,
                   eof_at, mon, elapsed, timed_out, result, timer, exitKind, readLive>>

\* line 182: communicate raises TimeoutExpired
rs_communicate_timeout ==
    /\ pc = "rs_wait"
    /\ deadline # NoNum
    /\ now >= Val(deadline)
    /\ EOF(proc, desc) => Val(eof_at) > Val(deadline)
    /\ timed_out' = TRUE
    /\ pc' = "rs_kill"
    /\ UNCHANGED <<engine, now, cmdKind, timeout, start_time, deadline, proc, desc,
                   eof_at, mon, elapsed, result, timer, exitKind, readLive>>

\* line 183: process.kill() sends SIGKILL to the spawned process, if it still runs
rs_kill ==
    /\ pc = "rs_kill"
    /\ proc' = IF proc.state = "running"
               THEN [proc EXCEPT !.state = "exited", !.returncode = Num(0 - 9),
                                 !.exit_at = Num(now), !.killed = TRUE]
               ELSE proc
    /\ eof_at' = EofAt(proc', desc)
    /\ pc' = "rs_drain"
    /\ UNCHANGED <<engine, now, cmdKind, timeout, start_time, deadline, desc, mon,
                   elapsed, timed_out, result, timer, exitKind, readLive>>

\* line 184: process.communicate() returns at end-of-file of both pipes
rs_drain ==
    /\ pc = "rs_drain"
    /\ EOF(proc, desc)
    /\ pc' = "rs_tstop"
    /\ UNCHANGED <<engine, now, cmdKind, timeout, start_time, deadline, proc, desc,
                   eof_at, mon, elapsed, timed_out, result, timer, exitKind, readLive>>

\* line 185: monitor.stop(), the event is set
rs_tstop ==
    /\ pc = "rs_tstop"
    /\ mon' = StopSignalled(mon)
    /\ pc' = "rs_tjoin"
    /\ UNCHANGED <<engine, now, cmdKind, timeout, start_time, deadline, proc, desc,
                   eof_at, elapsed, timed_out, result, timer, exitKind, readLive>>

\* line 185: monitor.stop(), the join returns
rs_tjoin ==
    /\ pc = "rs_tjoin"
    /\ JoinReturns(mon)
    /\ pc' = "rs_telapsed"
    /\ UNCHANGED <<engine, now, cmdKind, timeout, start_time, deadline, proc, desc,
                   eof_at, mon, elapsed, timed_out, result, timer, exitKind, readLive>>

\* line 186
rs_telapsed ==
    /\ pc = "rs_telapsed"
    /\ elapsed' = Num(now - start_time)
    /\ readLive' = LiveReads({"elapsed"})
    /\ pc' = "rs_finally"
    /\ UNCHANGED <<engine, now, cmdKind, timeout, start_time, deadline, proc, desc,
                   eof_at, mon, timed_out, result, timer, exitKind>>

\* line 193: monitor.stop() of the finally clause, the event is set
rs_finally ==
    /\ pc = "rs_finally"
    /\ mon' = StopSignalled(mon)
    /\ pc' = "rs_fjoin"
    /\ UNCHANGED <<engine, now, cmdKind, timeout, start_time, deadline, proc, desc,
                   eof_at, elapsed, timed_out, result, timer, exitKind, readLive>>

\* line 193: the join returns; on the timeout path the RenderError of lines
\* 187-191 now leaves the function
rs_fjoin ==
    /\ pc = "rs_fjoin"
    /\ JoinReturns(mon)
    /\ IF timed_out
       THEN /\ result' = TimeoutError(Val(elapsed), timeout)
            /\ pc' = "done"
       ELSE /\ pc' = "rs_return"
            /\ UNCHANGED result
    /\ UNCHANGED <<engine, now, cmdKind, timeout, start_time, deadline, proc, desc,
                   eof_at, mon, elapsed, timed_out, timer, exitKind, readLive>>

\* lines 195-203: elapsed is computed and the SubprocessResult is built
rs_return ==
    /\ pc = "rs_return"
    /\ elapsed' = Num(now - start_time)
    /\ result' = [kind |-> CompletedKind(Val(proc.returncode)),
                  exit_code |-> Val(proc.returncode),
                  elapsed_seconds |-> now - start_time,
                  peak_memory_mb |-> mon.peak]
    /\ readLive' = LiveReads({"elapsed", "peak"})
    /\ pc' = "done"
    /\ UNCHANGED <<engine, now, cmdKind, timeout, start_time, deadline, proc, desc,
                   eof_at, mon, timed_out, timer, exitKind>>

(***************************************************************************)
(* InProcessTimer                                                          *)
(***************************************************************************)
\* lines 255-256: the baseline sample of the caller's own process
ip_enter ==
    /\ pc = "ip_enter"
    /\ \E rss \in 1..MaxMem : timer' = [timer EXCEPT !.baseline_memory_mb = rss]
    /\ pc' = "ip_monitor"
    /\ UNCHANGED <<engine, now, cmdKind, timeout, start_time, deadline, proc, desc,
                   eof_at, mon, elapsed, timed_out, result, exitKind, readLive>>

\* lines 258-259
ip_monitor ==
    /\ pc = "ip_monitor"
    /\ mon' = MonitorStarted(NewMonitor)
    /\ pc' = "ip_starttime"
    /\ UNCHANGED <<engine, now, cmdKind, timeout, start_time, deadline, proc, desc,
                   eof_at, elapsed, timed_out, result, timer, exitKind, readLive>>

\* line 260
ip_starttime ==
    /\ pc = "ip_starttime"
    /\ start_time' = now
    /\ pc' = "ip_body"
    /\ UNCHANGED <<engine, now, cmdKind, timeout, deadline, proc, desc, eof_at, mon,
                   elapsed, timed_out, result, timer, exitKind, readLive>>

\* the bracketed computation ends: it returns, returns early or raises
ip_body ==
    /\ pc = "ip_body"
    /\ \E k \in ExitKinds : exitKind' = k
    /\ pc' = "ip_exit"
    /\ UNCHANGED <<engine, now, cmdKind, timeout, start_time, deadline, proc, desc,
                   eof_at, mon, elapsed, timed_out, result, timer, readLive>>

\* line 270: if self._monitor is not None, whatever exception is passed in
ExitStopsMonitor_unlessRaised(has_monitor, k) == has_monitor /\ k # "raise"

ExitStopsMonitor(has_monitor, k) == has_monitor

\* lines 269-270 of __exit__
ip_exit ==
    /\ pc = "ip_exit"
    /\ timer' = [timer EXCEPT !.elapsed_seconds = now - start_time]
    /\ readLive' = LiveReads({"elapsed"})
    /\ pc' = IF ExitStopsMonitor(mon.pc # "new", exitKind) THEN "ip_stop" ELSE "done"
    /\ UNCHANGED <<engine, now, cmdKind, timeout, start_time, deadline, proc, desc,
                   eof_at, mon, elapsed, timed_out, result, exitKind>>

\* line 271: self._monitor.stop(), the event is set
ip_stop ==
    /\ pc = "ip_stop"
    /\ mon' = StopSignalled(mon)
    /\ pc' = "ip_join"
    /\ UNCHANGED <<engine, now, cmdKind, timeout, start_time, deadline, proc, desc,
                   eof_at, elapsed, timed_out, result, timer, exitKind, readLive>>

\* line 271: the join returns
ip_join ==
    /\ pc = "ip_join"
    /\ JoinReturns(mon)
    /\ pc' = "ip_peak"
    /\ UNCHANGED <<engine, now, cmdKind, timeout, start_time, deadline, proc, desc,
                   eof_at, mon, elapsed, timed_out, result, timer, exitKind, readLive>>

\* line 272
ip_peak ==
    /\ pc = "ip_peak"
    /\ timer' = [timer EXCEPT !.peak_memory_mb = mon.peak]
    /\ readLive' = LiveReads({"peak"})
    /\ pc' = "done"
    /\ UNCHANGED <<engine, now, cmdKind, timeout, start_time, deadline, proc, desc,
                   eof_at, mon, elapsed, timed_out, result, exitKind>>

(***************************************************************************)
(* Specifications                                                          *)
(***************************************************************************)
\* the engines at rest, while the registry is explored
EngIdle ==
    /\ engine = "none"
    /\ pc = "idle"
    /\ now = 0
    /\ cmdKind = "starts"
    /\ timeout = NoNum
    /\ start_time = 0
    /\ deadline = NoNum
    /\ proc = NoProc
    /\ desc = "none"
    /\ eof_at = NoNum
    /\ mon = NewMonitor
    /\ elapsed = NoNum
    /\ timed_out = FALSE
    /\ result = NoResult
    /\ timer = NewTimerResult
    /\ exitKind = None
    /\ readLive = {}

\* one call of run_subprocess, or one region bracketed by a new InProcessTimer
EngInit ==
    /\ engine \in {"subprocess", "inprocess"}
    /\ pc = IF engine = "subprocess" THEN "rs_start" ELSE "ip_enter"
    /\ now = 0
    /\ cmdKind \in IF engine = "subprocess" THEN CmdKinds ELSE {"starts"}
    /\ timeout \in IF engine = "subprocess" THEN Timeouts ELSE {NoNum}
    /\ start_time = 0
    /\ deadline = NoNum
    /\ proc = NoProc
    /\ desc = "none"
    /\ eof_at = NoNum
    /\ mon = NewMonitor
    /\ elapsed = NoNum
    /\ timed_out = FALSE
    /\ result = NoResult
    /\ timer = NewTimerResult
    /\ exitKind = None
    /\ readLive = {}

EngNext ==
    \/ Tick
    \/ ProcExit
    \/ ProcFork
    \/ DescDetach
    \/ DescExit
    \/ MonInit
    \/ MonCheck
    \/ MonSample
    \/ MonUpdate
    \/ MonWait
    \/ rs_start
    \/ rs_popen
    \/ rs_monitor
    \/ rs_communicate
    \/ rs_communicate_returns
    \/ rs_communicate_timeout
    \/ rs_kill
    \/ rs_drain
    \/ rs_tstop
    \/ rs_tjoin
    \/ rs_telapsed
    \/ rs_finally
    \/ rs_fjoin
    \/ rs_return
    \/ ip_enter
    \/ ip_monitor
    \/ ip_starttime
    \/ ip_body
    \/ ip_exit
    \/ ip_stop
    \/ ip_join
    \/ ip_peak

(***************************************************************************)
(* adapters/exceptions.py: RenderError                                     *)
(***************************************************************************)
\* len(truncated) > 2000 and truncated[:2000]
TruncateAt == 2000
\* longest run of whitespace before or after the text of an output
MaxPad == 2

\* a captured output: None, or a string made of lead whitespace characters,
\* then body characters that begin and end with a non-whitespace character,
\* then trail whitespace characters (body = 0: empty or whitespace only)
NoText == <<>>
Text(lead, body, trail) == <<[lead |-> lead, body |-> body, trail |-> trail]>>

BodyLens == {0, 1, TruncateAt - 1, TruncateAt, TruncateAt + 1, TruncateAt + MaxPad}

Texts == {NoText} \cup
         {Text(l, b, t) : l \in 0..MaxPad, b \in BodyLens, t \in 0..MaxPad}

\* the exit_code argument: None or a number
ErrExitCodes == {NoNum} \cup {Num(c) : c \in ExitCodes}

\* a slice of the original string: count characters from position first
Slice(first, count) == [first |-> first, count |-> count]

\* truthiness of a str | None: neither None nor ""
Truthy(text) == text # NoText /\ text[1].lead + text[1].body + text[1].trail > 0

\* str.strip()
Strip(text) == Slice(text[1].lead + 1, text[1].body)

\* lines 60-61: the truncation of the stripped output
Truncate_inclusive(sl) ==
    IF sl.count >= TruncateAt
    THEN [text |-> Slice(sl.first, TruncateAt), marker |-> TRUE]
    ELSE [text |-> sl, marker |-> FALSE]

Truncate(sl) ==
    IF sl.count > TruncateAt
    THEN [text |-> Slice(sl.first, TruncateAt), marker |-> TRUE]
    ELSE [text |-> sl, marker |-> FALSE]

\* the parts that RenderError.__init__ joins into the message (lines 54-63)
MessageParts(exit_code, stderr_output) ==
    <<[part |-> "reason"]>>
    \o (IF exit_code # NoNum
        THEN <<[part |-> "exit_code", code |-> Val(exit_code)]>> ELSE <<>>)
    \o (IF Truthy(stderr_output) /\ Strip(stderr_output).count > 0
        THEN <<[part |-> "output"] @@ Truncate(Strip(stderr_output))>> ELSE <<>>)

VARIABLES
    e_pc,        \* "idle", "new" (arguments chosen), "built" (constructor returned)
    e_args,      \* the arguments [exit_code, stderr_output] of RenderError(...)
    e_error      \* the exception object: its attributes and its message parts

errVars == <<e_pc, e_args, e_error>>

NoError == [exit_code |-> NoNum, stderr_output |-> NoText, message |-> <<>>]

\* RenderError.__init__
RenderError_init ==
    /\ e_pc = "new"
    /\ e_pc' = "built"
    /\ e_error' = [exit_code |-> e_args.exit_code,
                   stderr_output |-> e_args.stderr_output,
                   message |-> MessageParts(e_args.exit_code, e_args.stderr_output)]
    /\ UNCHANGED e_args

ErrIdle ==
    /\ e_pc = "idle"
    /\ e_args = [exit_code |-> NoNum, stderr_output |-> NoText]
    /\ e_error = NoError

ErrInit ==
    /\ e_pc = "new"
    /\ e_args \in [exit_code : ErrExitCodes, stderr_output : Texts]
    /\ e_error = NoError

ErrNext == RenderError_init

(***************************************************************************)
(* adapters/*.py: the seven adapters, their formats and extension tables   *)
(***************************************************************************)
\* RendererAdapter.name of the seven adapters
Adapters == {"pbrt", "mitsuba3", "blender-cycles", "luxcore", "appleseed",
             "filament", "ospray"}

\* _SUPPORTED_FORMATS of each module (pbrt: the literal of supported_formats)
SUPPORTED_FORMATS(a) ==
    CASE a = "pbrt"           -> <<"pbrt">>
      [] a = "mitsuba3"       -> <<"mitsuba_xml", "xml", "gltf", "obj", "ply", "stl">>
      [] a = "blender-cycles" -> <<"blend", "gltf", "glb", "obj", "fbx", "stl", "ply",
                                   "abc", "usd">>
      [] a = "luxcore"        -> <<"lxs", "cfg", "scn">>
      [] a = "appleseed"      -> <<"appleseed">>
      [] a = "filament"       -> <<"gltf", "glb">>
      [] a = "ospray"         -> <<"obj", "gltf", "glb", "ospray">>

\* the keys of _EXT_TO_FORMAT of each module, without their leading dot
\* (pbrt has no table: render compares the suffix with "pbrt")
EXT_TO_FORMAT(a) ==
    CASE a = "pbrt"           -> {"pbrt"}
      [] a = "mitsuba3"       -> {"xml", "gltf", "glb", "obj", "ply", "stl"}
      [] a = "blender-cycles" -> {"blend", "gltf", "glb", "obj", "fbx", "stl", "ply",
                                  "abc", "usd", "usda", "usdc", "usdz"}
      [] a = "luxcore"        -> {"lxs", "cfg", "scn"}
      [] a = "appleseed"      -> {"appleseed"}
      [] a = "filament"       -> {"gltf", "glb"}
      [] a = "ospray"         -> {"obj", "gltf", "glb", "sg", "ospray"}

\* scene_path.suffix: the letters after the dot in lower case, and whether the
\* file name has them in upper case ("" : the name has no suffix)
SuffixNames == {"pbrt", "xml", "glb", "usda", "sg", "lxs", "appleseed", "gltf",
                "txt", ""}

Suffixes == {[name |-> n, upper |-> u] : n \in SuffixNames, u \in BOOLEAN}
            \ {[name |-> "", upper |-> TRUE]}

\* str.lower()
Lower(sfx) == [sfx EXCEPT !.upper = FALSE]

\* the format validation of render(): pbrt compares suffix.lstrip(".") with
\* "pbrt" as it is; the others look suffix.lower() up in their table
AcceptsSuffix_nonEmpty(a, table, sfx) == sfx.name # ""

AcceptsSuffix(a, table, sfx) ==
    IF a = "pbrt" THEN sfx = [name |-> "pbrt", upper |-> FALSE]
    ELSE Lower(sfx).name \in table

SeqToSet(q) == {q[i] : i \in 1..Len(q)}

(***************************************************************************)
(* supported_formats() and the lists it hands out                          *)
(***************************************************************************)
\* calls of supported_formats in one behaviour
MaxCalls == 3

VARIABLES
    f_adapter,   \* the adapter under test, or None
    f_module,    \* the module-level list _SUPPORTED_FORMATS (list object 0)
    f_table,     \* the keys of the module-level dict _EXT_TO_FORMAT
    f_objs,      \* the list objects 1, 2, ... allocated by supported_formats
    f_rets,      \* the calls so far: the object returned and its items then
    f_before     \* the suffixes render() accepted before any call

fmtVars == <<f_adapter, f_module, f_table, f_objs, f_rets, f_before>>

\* the suffixes the format validation of render() lets through
Accepted(a, table) == {sfx \in Suffixes : AcceptsSuffix(a, table, sfx)}

\* the items of list object ref
Items(ref) == IF ref = 0 THEN f_module ELSE f_objs[ref]

\* list(_SUPPORTED_FORMATS), or the list display of pbrt: a new list object
ReturnsCopy_alias(a) == a = "pbrt"

ReturnsCopy(a) == TRUE

\* supported_formats()
supported_formats ==
    /\ f_adapter # None
    /\ Len(f_rets) < MaxCalls
    /\ IF ReturnsCopy(f_adapter)
       THEN /\ f_objs' = Append(f_objs, f_module)
            /\ f_rets' = Append(f_rets, [ref |-> Len(f_objs) + 1, items |-> f_module])
       ELSE /\ f_rets' = Append(f_rets, [ref |-> 0, items |-> f_module])
            /\ UNCHANGED f_objs
    /\ UNCHANGED <<f_adapter, f_module, f_table, f_before>>

\* the caller writes to the list object a call returned
WriteList(ref, items) ==
    /\ IF ref = 0
       THEN f_module' = items /\ UNCHANGED f_objs
       ELSE f_objs' = [f_objs EXCEPT ![ref] = items] /\ UNCHANGED f_module
    /\ UNCHANGED <<f_adapter, f_table, f_rets, f_before>>

\* returned.append("zzz"), once per list
caller_append ==
    \E k \in 1..Len(f_rets) :
      /\ "zzz" \notin SeqToSet(Items(f_rets[k].ref))
      /\ WriteList(f_rets[k].ref, Append(Items(f_rets[k].ref), "zzz"))

\* returned.clear()
caller_clear ==
    \E k \in 1..Len(f_rets) :
      /\ Items(f_rets[k].ref) # <<>>
      /\ WriteList(f_rets[k].ref, <<>>)

FmtIdle ==
    /\ f_adapter = None
    /\ f_module = <<>>
    /\ f_table = {}
    /\ f_objs = <<>>
    /\ f_rets = <<>>
    /\ f_before = {}

FmtInit ==
    /\ f_adapter \in Adapters
    /\ f_module = SUPPORTED_FORMATS(f_adapter)
    /\ f_table = EXT_TO_FORMAT(f_adapter)
    /\ f_objs = <<>>
    /\ f_rets = <<>>
    /\ f_before = Accepted(f_adapter, f_table)

FmtNext ==
    \/ supported_formats
    \/ caller_append
    \/ caller_clear

(***************************************************************************)
(* adapters/*.py: the environment of an adapter and detect()               *)
(***************************************************************************)
\* what running the version command of a tool through run_subprocess gives:
\* an output with a version in it, an output without one (empty or
\* unparseable), or an exception (timeout, command not runnable)
ProbeOutcomes == {"version", "garbage", "raises"}

\* the Python binding of the renderer: not importable (ImportError), failing
\* otherwise at import or in its version call, exposing a version text,
\* exposing an empty version text, or exposing no version at all
BindingStates == {"absent", "broken", "version", "empty", "noattr"}

\* adapters that look for a command-line tool on PATH
HasBinary(a) == a # "mitsuba3"

\* adapters that look for a Python binding
HasBinding(a) == a \in {"mitsuba3", "luxcore", "filament", "ospray"}

\* adapters whose render() begins with self.detect(); the others search PATH
\* for the render binary themselves (_find_binary, shutil.which)
UsesDetect(a) == a \in {"mitsuba3", "luxcore", "ospray"}

\* the environments of adapter a: binary = the render tool is on PATH,
\* tool = a supplementary Filament SDK tool is on PATH
Envs(a) ==
    {e \in [binary : BOOLEAN, tool : BOOLEAN, probe : ProbeOutcomes,
            binding : BindingStates] :
        /\ e.binary => HasBinary(a)
        /\ e.tool => a = "filament"
        /\ (~e.binary /\ ~e.tool) => e.probe = "version"
        /\ ~HasBinding(a) => e.binding = "absent"}

\* the version an adapter makes of the outcome of its version command
VersionOfProbe(a, probe) ==
    CASE probe = "version" -> "4.0.0"
      [] probe = "garbage" -> "unknown"
      [] probe = "raises"  -> IF a \in {"pbrt", "blender-cycles"} THEN None
                              ELSE "unknown"

\* the version an adapter makes of its binding: str(version) as it is
VersionOfBinding(binding) ==
    CASE binding = "absent"  -> None
      [] binding = "broken"  -> None
      [] binding = "version" -> "4.0.0"
      [] binding = "empty"   -> ""
      [] binding = "noattr"  -> "unknown"

\* the run_subprocess calls of the version extraction: ospray tries --version
\* and then --help
ProbeEvents(a, probe) ==
    IF a = "ospray" /\ probe # "version" THEN <<"probe", "probe">> ELSE <<"probe">>

DetectResult(value, path, events) == [value |-> value, path |-> path, events |-> events]

\* detect(): the value returned, the integration path it resolves, and the
\* imports and processes it causes
Detect(a, e) ==
    CASE a \in {"pbrt", "blender-cycles", "appleseed"} ->
           IF e.binary
           THEN DetectResult(VersionOfProbe(a, e.probe), "cli", ProbeEvents(a, e.probe))
           ELSE DetectResult(None, "none", <<>>)
      [] a = "mitsuba3" ->
           DetectResult(VersionOfBinding(e.binding),
                        IF VersionOfBinding(e.binding) = None THEN "none"
                        ELSE "python_api",
                        <<"import">>)
      [] a = "luxcore" ->
           IF VersionOfBinding(e.binding) # None
           THEN DetectResult(VersionOfBinding(e.binding), "python_api", <<"import">>)
           ELSE IF e.binary
           THEN DetectResult(VersionOfProbe(a, e.probe), "cli",
                             <<"import">> \o ProbeEvents(a, e.probe))
           ELSE DetectResult(None, "none", <<"import">>)
      [] a = "filament" ->
           IF e.binary \/ e.tool
           THEN DetectResult(VersionOfProbe(a, e.probe), "cli", ProbeEvents(a, e.probe))
           ELSE DetectResult(VersionOfBinding(e.binding),
                             IF VersionOfBinding(e.binding) = None THEN "none"
                             ELSE "python_api",
                             <<"import">>)
      [] a = "ospray" ->
           IF e.binary
           THEN DetectResult(VersionOfProbe(a, e.probe), "cli", ProbeEvents(a, e.probe))
           ELSE DetectResult(VersionOfBinding(e.binding),
                             IF VersionOfBinding(e.binding) = None THEN "none"
                             ELSE "python_api",
                             <<"import">>)

\* the installation check at the top of render()
InstallCheck(a, e) ==
    IF UsesDetect(a) THEN Detect(a, e)
    ELSE IF e.binary THEN DetectResult("found", "cli", <<>>)
    ELSE DetectResult(None, "none", <<>>)

(***************************************************************************)
(* adapters/*.py: render()                                                 *)
(***************************************************************************)
\* what the run_subprocess call of the render command gives the adapter: a
\* SubprocessResult with an exit code, the RenderError of the timeout path,
\* the FileNotFoundError of a command that is not found, or another OSError
\* of the spawn
RunOutcomes ==
    {[kind |-> "result", exit_code |-> c] : c \in ExitCodes}
    \cup {[kind |-> k, exit_code |-> 0] :
            k \in {"RenderError", "FileNotFoundError", "OSError"}}

\* what the calls into a binding do: all return, the first calls (the set-up
\* of the scene) raise, or the render or the save raises
BindOutcomes == {"ok", "raises_setup", "raises_render"}

\* a file after the render: not there, there with no bytes, there with bytes
FileStates == {"missing", "empty", "written"}

\* output_path.parent.mkdir(parents=True, exist_ok=True)
MkdirOutcomes == {"ok", "raises"}

VARIABLES
    r_op,        \* "none", "detect" (a call of detect()) or "render"
    r_adapter,   \* the adapter called
    r_env,       \* its environment
    r_scene,     \* scene_path: [suffix, exists]
    r_pc,        \* position inside the call
    r_path,      \* the integration path resolved by the installation check
    r_events,    \* imports, processes, directories and binding calls so far
    r_run,       \* the exit code of the render command, or None
    r_file,      \* state of output_path after the render, or None
    r_alt,       \* pbrt: state of the sibling output_path.with_suffix(".exr"/".png")
    r_out,       \* what the call returned or raised
    r_settings,  \* settings: [time_budget, extra_timeout]
    r_dir,       \* output_path.parent exists
    r_timeout    \* the timeout argument of the run_subprocess call of the render

rndVars == <<r_op, r_adapter, r_env, r_scene, r_pc, r_path, r_events, r_run,
             r_file, r_alt, r_out, r_settings, r_dir, r_timeout>>

NoOutcome == [kind |-> "none", type |-> None, reason |-> None]

Raise(type, reason) == [kind |-> "raise", type |-> type, reason |-> reason]

\* a normal return: the value is kept in the field reason
Return(type, value) == [kind |-> "return", type |-> type, reason |-> value]

\* the call ends by raising
RaiseNow(type, reason) ==
    /\ r_out' = Raise(type, reason)
    /\ r_pc' = "done"

\* the adapter renders in this process through a binding
InProcess(a, path) == a = "mitsuba3" \/ path = "python_api"

\* a standalone call of detect()
detect ==
    /\ r_op = "detect" /\ r_pc = "start"
    /\ r_events' = r_events \o Detect(r_adapter, r_env).events
    /\ r_path' = Detect(r_adapter, r_env).path
    /\ r_out' = Return("str|None", Detect(r_adapter, r_env).value)
    /\ r_pc' = "done"
    /\ UNCHANGED <<r_op, r_adapter, r_env, r_scene, r_settings, r_dir, r_timeout, r_run, r_file, r_alt>>

\* render(), step 1: the installation check
render_install ==
    /\ r_op = "render" /\ r_pc = "start"
    /\ r_events' = r_events \o InstallCheck(r_adapter, r_env).events
    /\ r_path' = InstallCheck(r_adapter, r_env).path
    /\ IF InstallCheck(r_adapter, r_env).value = None
       THEN RaiseNow("RendererNotFoundError", "not installed")
       ELSE r_pc' = "format" /\ UNCHANGED r_out
    /\ UNCHANGED <<r_op, r_adapter, r_env, r_scene, r_settings, r_dir, r_timeout, r_run, r_file, r_alt>>

\* render(), step 2: the scene format validation
render_format ==
    /\ r_pc = "format"
    /\ IF AcceptsSuffix(r_adapter, EXT_TO_FORMAT(r_adapter), r_scene.suffix)
       THEN r_pc' = "exists" /\ UNCHANGED r_out
       ELSE RaiseNow("SceneFormatError", "unsupported format")
    /\ UNCHANGED <<r_op, r_adapter, r_env, r_scene, r_settings, r_dir, r_timeout, r_path, r_events, r_run,
                   r_file, r_alt>>

\* scene_path.exists()
SceneMissing_never(scene) == FALSE

SceneMissing(scene) == ~scene.exists

\* where render() goes on after the existence check: pbrt builds its command
\* at once, mitsuba loads and renders before it creates the output directory,
\* the others create the output directory first
AfterExists(a) ==
    CASE a = "pbrt"     -> "run"
      [] a = "mitsuba3" -> "bind"
      [] OTHER          -> "mkdir"

\* render(), step 3: the scene file must exist
render_exists ==
    /\ r_pc = "exists"
    /\ IF SceneMissing(r_scene)
       THEN RaiseNow("RenderError", "Scene file not found")
       ELSE r_pc' = AfterExists(r_adapter) /\ UNCHANGED r_out
    /\ UNCHANGED <<r_op, r_adapter, r_env, r_scene, r_settings, r_dir, r_timeout, r_path, r_events, r_run,
                   r_file, r_alt>>

\* where render() goes on after the output directory exists
AfterMkdir(a, path) ==
    CASE a = "mitsuba3"      -> "output"
      [] InProcess(a, path)  -> "bind"
      [] OTHER               -> "run"

\* render(), step 4: output_path.parent.mkdir(...), outside any try; mitsuba
\* then saves the image inside a try
render_mkdir ==
    /\ r_pc = "mkdir"
    /\ \E m \in MkdirOutcomes :
         IF m = "raises"
         THEN /\ RaiseNow("OSError", "mkdir")
              /\ UNCHANGED <<r_events, r_file, r_dir>>
         ELSE /\ r_events' = Append(r_events, "mkdir")
              /\ r_dir' = TRUE
              /\ IF r_adapter = "mitsuba3"
                 THEN \E save \in {"ok", "raises"}, f \in FileStates :
                        IF save = "raises"
                        THEN /\ RaiseNow("RenderError", "Failed to save output")
                             /\ UNCHANGED r_file
                        ELSE /\ r_file' = f
                             /\ r_pc' = "output" /\ UNCHANGED r_out
                 ELSE /\ r_pc' = AfterMkdir(r_adapter, r_path)
                      /\ UNCHANGED <<r_out, r_file>>
    /\ UNCHANGED <<r_op, r_adapter, r_env, r_scene, r_settings, r_timeout, r_path,
                   r_run, r_alt>>

\* what leaves render() when the first calls into the binding raise: luxcore
\* builds its Properties outside any try, mitsuba and ospray wrap every call
SetupFailure(a) ==
    IF a = "luxcore" THEN Raise("Exception", "raised by the binding")
    ELSE Raise("RenderError", "raised by the binding")

\* render(), step 5 of the adapters that render through a binding
render_bind ==
    /\ r_pc = "bind"
    /\ r_events' = Append(r_events, "bind")
    /\ \E b \in BindOutcomes, f \in FileStates :
         CASE b = "raises_setup" ->
                /\ r_out' = SetupFailure(r_adapter)
                /\ r_pc' = "done"
                /\ UNCHANGED r_file
           [] b = "raises_render" ->
                /\ RaiseNow("RenderError", "raised by the binding")
                /\ UNCHANGED r_file
           [] b = "ok" ->
                /\ UNCHANGED r_out
                /\ IF r_adapter = "mitsuba3"
                   THEN r_pc' = "mkdir" /\ UNCHANGED r_file
                   ELSE r_pc' = "output" /\ r_file' = f
    /\ UNCHANGED <<r_op, r_adapter, r_env, r_scene, r_settings, r_dir, r_timeout, r_path, r_run, r_alt>>

\* settings.time_budget, and settings.extra.get("timeout") (None when the key
\* is absent): None or a number of seconds, 0 included
TimeBudgets == {NoNum} \cup {Num(t) : t \in 0..MaxTimeout}

Settings == [time_budget : TimeBudgets, extra_timeout : TimeBudgets]

\* filament.py line 185: the timeout of a render that was given none
FilamentDefaultTimeout == 60

\* the truth value of an optional number: None and 0 are false
TruthyNum(x) == x # NoNum /\ Val(x) # 0

\* settings.time_budget if settings.time_budget else settings.extra.get("timeout")
BudgetOrExtra(s) ==
    IF TruthyNum(s.time_budget) THEN s.time_budget ELSE s.extra_timeout

\* the timeout an adapter passes to run_subprocess for its render command
ResolveTimeout(a, s) ==
    IF a = "filament" /\ BudgetOrExtra(s) = NoNum THEN Num(FilamentDefaultTimeout)
    ELSE BudgetOrExtra(s)

\* where render() goes on when run_subprocess returned: the exit code is
\* looked at once, and nothing leads back to the command
AfterExit_retry(code) == IF code # 0 THEN "run" ELSE "output"

AfterExit(code) == "output"

\* render(), step 5 of the adapters that run a command: the run_subprocess
\* call is in no try that catches, so what it raises leaves render() as it is
render_run ==
    /\ r_pc = "run"
    /\ r_events' = Append(r_events, "run")
    /\ r_timeout' = ResolveTimeout(r_adapter, r_settings)
    /\ \E o \in RunOutcomes, f \in FileStates,
          alt \in IF r_adapter = "pbrt" THEN FileStates ELSE {"missing"} :
         /\ o.kind = "RenderError" => r_timeout' # NoNum
         /\ IF o.kind = "result"
            THEN /\ r_run' = Num(o.exit_code)
                 /\ r_file' = f
                 /\ r_alt' = alt
                 /\ r_pc' = AfterExit(o.exit_code)
                 /\ UNCHANGED r_out
            ELSE /\ RaiseNow(o.kind, "raised by run_subprocess")
                 /\ UNCHANGED <<r_run, r_file, r_alt>>
    /\ UNCHANGED <<r_op, r_adapter, r_env, r_scene, r_settings, r_dir, r_path>>

\* the check of the output file after the render
OutputAccepted(a, file, alt) ==
    CASE a = "pbrt"                            -> file # "missing" \/ alt # "missing"
      [] a \in {"blender-cycles", "appleseed"} -> file = "written"
      [] OTHER                                 -> file # "missing"

\* render(), step 6: the exit code and the output file
render_output ==
    /\ r_pc = "output"
    /\ IF r_run # NoNum /\ Val(r_run) # 0
       THEN RaiseNow("RenderError", "Non-zero exit code")
       ELSE IF ~OutputAccepted(r_adapter, r_file, r_alt)
       THEN RaiseNow("RenderError", "Output file was not created")
       ELSE r_pc' = "build" /\ UNCHANGED r_out
    /\ UNCHANGED <<r_op, r_adapter, r_env, r_scene, r_settings, r_dir, r_timeout, r_path, r_events, r_run,
                   r_file, r_alt>>

\* adapters whose result metadata calls self.detect() once more
DetectsForMetadata(a) == a \in {"pbrt", "blender-cycles", "appleseed", "filament"}

\* render(), step 7: the RenderResult
render_build ==
    /\ r_pc = "build"
    /\ r_events' = IF DetectsForMetadata(r_adapter)
                   THEN r_events \o Detect(r_adapter, r_env).events
                   ELSE r_events
    /\ r_out' = Return("RenderResult", "result")
    /\ r_pc' = "done"
    /\ UNCHANGED <<r_op, r_adapter, r_env, r_scene, r_settings, r_dir, r_timeout, r_path, r_run, r_file, r_alt>>

RndIdle ==
    /\ r_op = "none"
    /\ r_adapter = None
    /\ r_env = [binary |-> FALSE, tool |-> FALSE, probe |-> "version",
                binding |-> "absent"]
    /\ r_scene = [suffix |-> [name |-> "", upper |-> FALSE], exists |-> FALSE]
    /\ r_pc = "idle"
    /\ r_path = "none"
    /\ r_events = <<>>
    /\ r_run = NoNum
    /\ r_file = None
    /\ r_alt = None
    /\ r_out = NoOutcome
    /\ r_settings = [time_budget |-> NoNum, extra_timeout |-> NoNum]
    /\ r_dir = FALSE
    /\ r_timeout = NoNum

\* one call of detect() or of render() of one adapter in one environment
RndInit ==
    /\ r_op \in {"detect", "render"}
    /\ r_adapter \in Adapters
    /\ r_env \in Envs(r_adapter)
    /\ r_scene \in IF r_op = "render" THEN [suffix : Suffixes, exists : BOOLEAN]
                   ELSE {[suffix |-> [name |-> "", upper |-> FALSE], exists |-> FALSE]}
    /\ r_pc = "start"
    /\ r_path = "none"
    /\ r_events = <<>>
    /\ r_run = NoNum
    /\ r_file = None
    /\ r_alt = None
    /\ r_out = NoOutcome
    /\ r_settings \in IF r_op = "render" THEN Settings
                      ELSE {[time_budget |-> NoNum, extra_timeout |-> NoNum]}
    /\ r_dir \in IF r_op = "render" THEN BOOLEAN ELSE {FALSE}
    /\ r_timeout = NoNum

RndNext ==
    \/ detect
    \/ render_install
    \/ render_format
    \/ render_exists
    \/ render_mkdir
    \/ render_bind
    \/ render_run
    \/ render_output
    \/ render_build

(***************************************************************************)
(* adapters/luxcore.py, adapters/ospray.py: the integration path of one    *)
(* adapter instance over several calls                                     *)
(***************************************************************************)
\* calls made on one adapter instance in one behaviour
MaxInstanceCalls == 3

\* the adapters with a binding path and a command-line path
DualPath == {"luxcore", "ospray"}

VARIABLES
    p_adapter,         \* the adapter the instance belongs to, or None
    p_env,             \* its environment, which may change between calls
    integration_path,  \* self._integration_path: "none" (None), "python_api" or "cli"
    p_first,           \* the path the first successful detection resolved, or "none"
    p_used,            \* the paths the render() calls dispatched to, in call order
    p_calls            \* calls made so far

pathVars == <<p_adapter, p_env, integration_path, p_first, p_used, p_calls>>

\* detect() assigns self._integration_path on the branch it returns a version
\* from, and leaves it as it is when it returns None
PathAfterDetect(old, res) == IF res.value = None THEN old ELSE res.path

\* the end of render(): _render_python_api if the path is PYTHON_API, else
\* _render_cli
Dispatch(path) == IF path = "python_api" THEN "python_api" ELSE "cli"

\* a call of detect() on the instance
instance_detect ==
    /\ p_adapter \in DualPath
    /\ p_calls < MaxInstanceCalls
    /\ p_calls' = p_calls + 1
    /\ \E res \in {Detect(p_adapter, p_env)} :
         /\ integration_path' = PathAfterDetect(integration_path, res)
         /\ p_first' = IF p_first = "none" THEN integration_path' ELSE p_first
    /\ UNCHANGED <<p_adapter, p_env, p_used>>

\* a call of render() on the instance with a scene that passes the format and
\* existence checks: detect() runs first, and the call dispatches on the path
\* detect() left in self._integration_path
instance_render ==
    /\ p_adapter \in DualPath
    /\ p_calls < MaxInstanceCalls
    /\ p_calls' = p_calls + 1
    /\ \E res \in {Detect(p_adapter, p_env)} :
         /\ integration_path' = PathAfterDetect(integration_path, res)
         /\ p_first' = IF p_first = "none" THEN integration_path' ELSE p_first
         /\ p_used' = IF res.value = None THEN p_used
                      ELSE Append(p_used, Dispatch(integration_path'))
    /\ UNCHANGED <<p_adapter, p_env>>

\* between two calls the binding or the command-line tool is installed,
\* removed or replaced
env_change ==
    /\ p_adapter \in DualPath
    /\ p_calls < MaxInstanceCalls
    /\ \E e \in Envs(p_adapter) : e # p_env /\ p_env' = e
    /\ UNCHANGED <<p_adapter, integration_path, p_first, p_used, p_calls>>

PathIdle ==
    /\ p_adapter = None
    /\ p_env = [binary |-> FALSE, tool |-> FALSE, probe |-> "version",
                binding |-> "absent"]
    /\ integration_path = "none"
    /\ p_first = "none"
    /\ p_used = <<>>
    /\ p_calls = 0

\* a new instance: __init__ sets _integration_path to None
PathInit ==
    /\ p_adapter \in DualPath
    /\ p_env \in Envs(p_adapter)
    /\ integration_path = "none"
    /\ p_first = "none"
    /\ p_used = <<>>
    /\ p_calls = 0

PathNext ==
    \/ instance_detect
    \/ instance_render
    \/ env_change

(***************************************************************************)
(* core/registry.py: the registry shared by threads. detect_all and        *)
(* register are taken statement by statement; the interpreter may switch   *)
(* threads between any two of them.                                        *)
(***************************************************************************)
\* detect_all calls one detecting thread makes
MaxDetects == 1
\* register and clear_cache calls the writing thread makes
MaxWrites == 1

\* the threads that call detect_all
Detectors == {"d1", "d2"}

\* the classes the writing thread registers
ThreadClasses == {ModuleClass("pbrt"), ModuleClass("mitsuba")}

\* what the try body of detect_all does for one adapter here: detect()
\* returns a version, or the constructor or detect() raises
ThreadOutcomes == {"4.0.0", "raises"}

VARIABLES
    det,       \* per detecting thread: position in detect_all, locals, last return
    wr,        \* the writing thread: position in register, its locals
    c_start,   \* the adapter names registered when the computation of the dict
               \* now in _detection_cache started
    raced,     \* [name, det]: register(name) completed while det was computing
    settled    \* names of raced registrations whose detect_all has ended as well

thrVars == <<det, wr, c_start, raced, settled>>

\* a detect_all call that has not returned anything
NoReturn == [kind |-> "none", map |-> EmptyMap, start |-> {}, computed |-> FALSE,
             overlapped |-> FALSE]

NewDetector == [pc |-> "idle", calls |-> 0, results |-> EmptyMap, start |-> {},
                pos |-> 0, size |-> 0, name |-> None, need |-> {}, ret |-> NoReturn]

\* the call of a thread has ended: its locals are gone
Ended(dr, returned) ==
    [NewDetector EXCEPT !.calls = dr.calls, !.need = dr.need, !.ret = returned]

NewWriter == [pc |-> "idle", calls |-> 0, cls |-> None]

\* the thread is between line 111 (results = {}) and line 125
Computing(d) == det[d].pc \in {"iter", "next", "probe", "publish"}

\* the names whose registration raced with the call of d that now ends
RacedWith(d) == {r.name : r \in {x \in raced : x.det = d}}

\* line 106: the call begins; the registry is initialized, so
\* _ensure_initialized returns at once
d_call(d) ==
    /\ det[d].pc = "idle"
    /\ det[d].calls < MaxDetects
    /\ det' = [det EXCEPT ![d] = [@ EXCEPT !.pc = "check", !.calls = @ + 1,
                                            !.need = settled, !.ret = NoReturn]]
    /\ UNCHANGED <<adapters, detection_cache, wr, c_start, raced, settled>>

\* line 108: if self._detection_cache is not None; else line 111: results = {}
d_check(d) ==
    /\ det[d].pc = "check"
    /\ det' = [det EXCEPT ![d] =
                 IF CacheHit(detection_cache)
                 THEN [@ EXCEPT !.pc = "cached"]
                 ELSE [@ EXCEPT !.pc = "iter", !.results = EmptyMap,
                                !.start = KeysOf(adapters)]]
    /\ UNCHANGED <<adapters, detection_cache, wr, c_start, raced, settled>>

\* line 109: return self._detection_cache, a second read of the attribute
d_cached(d) ==
    /\ det[d].pc = "cached"
    /\ det' = [det EXCEPT ![d] =
                 Ended(@, IF detection_cache = NoDict
                          THEN [NoReturn EXCEPT !.kind = "None"]
                          ELSE [kind |-> "dict", map |-> detection_cache.map,
                                start |-> c_start, computed |-> FALSE,
                                overlapped |-> FALSE])]
    /\ UNCHANGED <<adapters, detection_cache, wr, c_start, raced, settled>>

\* line 112: the iterator over self._adapters.items() is created
d_iter(d) ==
    /\ det[d].pc = "iter"
    /\ det' = [det EXCEPT ![d] = [@ EXCEPT !.pc = "next", !.pos = 0,
                                            !.size = Len(adapters)]]
    /\ UNCHANGED <<adapters, detection_cache, wr, c_start, raced, settled>>

\* the dict iterator finds that the dict changed size since it was created
SizeChanged(size, ads) == Len(ads) # size

\* line 112: the iterator is asked for the next item; a dict that changed
\* size makes it raise RuntimeError, which leaves detect_all
d_next(d) ==
    /\ det[d].pc = "next"
    /\ IF SizeChanged(det[d].size, adapters)
       THEN /\ det' = [det EXCEPT ![d] =
                         Ended(@, [NoReturn EXCEPT !.kind = "RuntimeError"])]
            /\ settled' = settled \cup RacedWith(d)
            /\ raced' = {x \in raced : x.det # d}
       ELSE /\ det' = [det EXCEPT ![d] =
                         IF det[d].pos = Len(adapters)
                         THEN [@ EXCEPT !.pc = "publish"]
                         ELSE [@ EXCEPT !.pc = "probe", !.pos = @ + 1,
                                        !.name = adapters[det[d].pos + 1].name]]
            /\ UNCHANGED <<raced, settled>>
    /\ UNCHANGED <<adapters, detection_cache, wr, c_start>>

\* lines 113-123: both the try body and the except clause store an entry
StoresEntry_unlessRaises(outcome) == outcome \notin Raising

StoresEntry(outcome) == TRUE

\* lines 113-123: the adapter is constructed and probed
d_probe(d) ==
    /\ det[d].pc = "probe"
    /\ \E outcome \in ThreadOutcomes :
         det' = [det EXCEPT ![d] =
                   [@ EXCEPT !.pc = "next",
                             !.results =
                                IF StoresEntry(outcome)
                                THEN [n \in DOMAIN @ \cup {det[d].name} |->
                                        IF n = det[d].name THEN ProbeEntry(outcome)
                                                           ELSE @[n]]
                                ELSE @]]
    /\ UNCHANGED <<adapters, detection_cache, wr, c_start, raced, settled>>

\* lines 125-126: self._detection_cache = results; return results
d_publish(d) ==
    /\ det[d].pc = "publish"
    /\ detection_cache' = [id |-> 1, map |-> det[d].results]
    /\ c_start' = det[d].start
    /\ det' = [det EXCEPT ![d] =
                 Ended(@, [kind |-> "dict", map |-> det[d].results,
                           start |-> det[d].start, computed |-> TRUE,
                           overlapped |-> RacedWith(d) # {}])]
    /\ settled' = settled \cup RacedWith(d)
    /\ raced' = {x \in raced : x.det # d}
    /\ UNCHANGED <<adapters, wr>>

\* register, lines 56-57: instance = adapter_cls(); name = instance.name
w_register ==
    /\ wr.pc = "idle"
    /\ wr.calls < MaxWrites
    /\ \E cls \in ThreadClasses :
         wr' = [wr EXCEPT !.pc = "store", !.calls = @ + 1, !.cls = cls]
    /\ UNCHANGED <<adapters, detection_cache, det, c_start, raced, settled>>

\* register, line 60: self._adapters[name] = adapter_cls
w_store ==
    /\ wr.pc = "store"
    /\ adapters' = DictStore(adapters, ClassName(wr.cls), wr.cls)
    /\ wr' = [wr EXCEPT !.pc = "invalidate"]
    /\ UNCHANGED <<detection_cache, det, c_start, raced, settled>>

\* register, line 62: self._detection_cache = None, and the call returns
w_invalidate ==
    /\ wr.pc = "invalidate"
    /\ detection_cache' = CacheAfterRegister(detection_cache)
    /\ wr' = [wr EXCEPT !.pc = "idle", !.cls = None]
    /\ raced' = raced \cup {[name |-> ClassName(wr.cls), det |-> d] :
                              d \in {x \in Detectors : Computing(x)}}
    /\ UNCHANGED <<adapters, det, c_start, settled>>

\* clear_cache, line 135
w_clear ==
    /\ wr.pc = "idle"
    /\ wr.calls < MaxWrites
    /\ wr' = [wr EXCEPT !.calls = @ + 1]
    /\ detection_cache' = CacheAfterClear(detection_cache)
    /\ UNCHANGED <<adapters, det, c_start, raced, settled>>

ThrInit ==
    /\ det = [d \in Detectors |-> NewDetector]
    /\ wr = NewWriter
    /\ c_start = {}
    /\ raced = {}
    /\ settled = {}

ThrIdle ==
    /\ det = [d \in Detectors |-> NewDetector]
    /\ wr = NewWriter
    /\ c_start = {}
    /\ raced = {}
    /\ settled = {}

\* a registry whose bootstrap has run, with no adapter or with one
ThrRegInit ==
    /\ adapters \in {<<>>, <<[name |-> "pbrt", cls |-> ModuleClass("pbrt")]>>}
    /\ detection_cache = NoDict
    /\ initialized = TRUE
    /\ sys_modules = {}
    /\ nextId = 1
    /\ lastOp = "init"
    /\ ret = [kind |-> "none"]
    /\ lastDict = NoDict
    /\ prevDict = NoDict
    /\ pending = NoPending
    /\ between = NoPending
    /\ lastRegistered = EmptyMap
    /\ boot = <<>>

ThrNext ==
    /\ \/ \E d \in Detectors :
            \/ d_call(d) \/ d_check(d) \/ d_cached(d) \/ d_iter(d)
            \/ d_next(d) \/ d_probe(d) \/ d_publish(d)
       \/ w_register
       \/ w_store
       \/ w_invalidate
       \/ w_clear
    /\ UNCHANGED <<initialized, sys_modules, nextId, lastOp, ret, lastDict,
                   prevDict, pending, between, lastRegistered, boot>>

vars == <<regVars, engVars, errVars, fmtVars, rndVars, pathVars, thrVars>>

\* the registry, driven by one caller
Init == RegInit /\ EngIdle /\ ErrIdle /\ FmtIdle /\ RndIdle /\ PathIdle /\ ThrIdle

Next == RegNext /\ UNCHANGED <<engVars, errVars, fmtVars, rndVars, pathVars, thrVars>>

Spec == Init /\ [][Next]_vars

\* one run of an execution engine
InitEngine == RegInit /\ EngInit /\ ErrIdle /\ FmtIdle /\ RndIdle /\ PathIdle /\ ThrIdle

NextEngine == EngNext /\ UNCHANGED <<regVars, errVars, fmtVars, rndVars, pathVars, thrVars>>

SpecEngine == InitEngine /\ [][NextEngine]_vars

\* one call of run_subprocess with a timeout, of a command that starts
InitTimeout ==
    /\ InitEngine
    /\ engine = "subprocess"
    /\ cmdKind = "starts"
    /\ timeout # NoNum

SubprocessStep ==
    \/ rs_start \/ rs_popen \/ rs_monitor \/ rs_communicate
    \/ rs_communicate_returns \/ rs_communicate_timeout \/ rs_kill \/ rs_drain
    \/ rs_tstop \/ rs_tjoin \/ rs_telapsed \/ rs_finally \/ rs_fjoin \/ rs_return

MonitorStep == MonInit \/ MonCheck \/ MonSample \/ MonUpdate \/ MonWait

ProcessStep == ProcExit \/ ProcFork \/ DescDetach \/ DescExit

NextTimeout ==
    /\ SubprocessStep \/ MonitorStep \/ ProcessStep \/ Tick
    /\ UNCHANGED <<regVars, errVars, fmtVars, rndVars, pathVars, thrVars>>

\* every thread that can take a step takes one in the end, and the clock goes
\* on: the caller inside run_subprocess, the monitor thread, the clock.
\* Nothing obliges the spawned process or its descendant to end or to close
\* a pipe.
SpecTimeout ==
    /\ InitTimeout /\ [][NextTimeout]_vars
    /\ WF_vars(SubprocessStep /\ UNCHANGED <<regVars, errVars, fmtVars, rndVars, pathVars, thrVars>>)
    /\ WF_vars(MonitorStep /\ UNCHANGED <<regVars, errVars, fmtVars, rndVars, pathVars, thrVars>>)
    /\ WF_vars(Tick /\ UNCHANGED <<regVars, errVars, fmtVars, rndVars, pathVars, thrVars>>)

\* the construction of one RenderError
InitError == RegInit /\ EngIdle /\ ErrInit /\ FmtIdle /\ RndIdle /\ PathIdle /\ ThrIdle

NextError == ErrNext /\ UNCHANGED <<regVars, engVars, fmtVars, rndVars, pathVars, thrVars>>

SpecError == InitError /\ [][NextError]_vars

\* the calls of supported_formats() of one adapter and what the caller does
\* with the lists
InitFormats == RegInit /\ EngIdle /\ ErrIdle /\ FmtInit /\ RndIdle /\ PathIdle /\ ThrIdle

NextFormats == FmtNext /\ UNCHANGED <<regVars, engVars, errVars, rndVars, pathVars, thrVars>>

SpecFormats == InitFormats /\ [][NextFormats]_vars

\* one call of detect() or render() of an adapter
InitRender == RegInit /\ EngIdle /\ ErrIdle /\ FmtIdle /\ RndInit /\ PathIdle /\ ThrIdle

NextRender == RndNext /\ UNCHANGED <<regVars, engVars, errVars, fmtVars, pathVars, thrVars>>

SpecRender == InitRender /\ [][NextRender]_vars

\* the calls made on one instance of a dual-path adapter while its environment
\* changes
InitPaths == RegInit /\ EngIdle /\ ErrIdle /\ FmtIdle /\ RndIdle /\ PathInit /\ ThrIdle

NextPaths == PathNext /\ UNCHANGED <<regVars, engVars, errVars, fmtVars, rndVars, thrVars>>

SpecPaths == InitPaths /\ [][NextPaths]_vars

\* the registry called by two detecting threads and one writing thread
InitThreads == ThrRegInit /\ EngIdle /\ ErrIdle /\ FmtIdle /\ RndIdle /\ PathIdle /\ ThrInit

NextThreads == ThrNext /\ UNCHANGED <<engVars, errVars, fmtVars, rndVars, pathVars>>

SpecThreads == InitThreads /\ [][NextThreads]_vars

(***************************************************************************)
(* Properties of the registry (specification Spec)                         *)
(***************************************************************************)

\* C1: detect_all is memoized: a detect_all call that follows another one with
\* no register and no clear_cache between them returns the very dict object the
\* first call returned (same identity, same entries) and probes no adapter.
C1_DetectAllMemoized ==
    (lastOp = "detect_all" /\ prevDict # NoDict) =>
        /\ ret.kind = "dict"
        /\ ret.id = prevDict.id
        /\ ret.map = prevDict.map
        /\ ret.probed = <<>>
        /\ ~ret.computed

C1_Witness ==
    /\ lastOp = "detect_all"
    /\ prevDict # NoDict
    /\ ret.kind = "dict"
    /\ ret.id = prevDict.id
    /\ Len(adapters) >= 2

\* C2: the first detect_all after a completed register(X) returns a newly
\* computed dict whose keys are exactly the names registered at that moment,
\* X's name among them.
C2_RegisterInvalidates ==
    (lastOp = "detect_all" /\ between # None) =>
        /\ ret.kind = "dict"
        /\ ret.computed
        /\ ret.id = nextId - 1
        /\ DOMAIN ret.map = KeysOf(adapters)
        /\ between \in DOMAIN ret.map

\* a snapshot was cached, then a further adapter was registered, then
\* detect_all ran again
C2_Witness ==
    /\ lastOp = "detect_all"
    /\ between = "mitsuba"
    /\ ret.kind = "dict"
    /\ ret.id = 2
    /\ Len(adapters) >= 2
    /\ "mitsuba" \in DOMAIN ret.map

\* C3: in a detect_all that probes, an adapter whose constructor or detect()
\* raises gets the entry None, every registered adapter is probed and gets its
\* own result, and detect_all does not raise.
C3_FailingDetectIsolated ==
    (lastOp = "detect_all") =>
        /\ ret.kind = "dict"
        /\ ret.computed =>
             /\ Len(ret.outs) = Len(adapters)
             /\ ret.probed = [i \in 1..Len(adapters) |-> adapters[i].name]
             /\ DOMAIN ret.map = KeysOf(adapters)
             /\ \A i \in 1..Len(adapters) :
                  ret.map[adapters[i].name] =
                     IF ret.outs[i] = "raises" THEN None ELSE ret.outs[i]

\* adapter B raises and adapter A, probed after it, reports "4.0.0"
C3_Witness ==
    /\ lastOp = "detect_all"
    /\ ret.kind = "dict"
    /\ ret.computed
    /\ \E i, j \in 1..Len(adapters) :
         /\ i < j
         /\ ret.outs[i] = "raises"
         /\ ret.outs[j] = "4.0.0"
         /\ ret.map[adapters[i].name] = None
         /\ ret.map[adapters[j].name] = "4.0.0"

\* C4: the registry holds at most one adapter per name, the class stored under
\* a name is the last one registered under it, get(name) and list_all()
\* instantiate that class, and list_all() has one element per registered name.
C4_UniqueNamesLastWins ==
    /\ \A i, j \in 1..Len(adapters) :
         adapters[i].name = adapters[j].name => i = j
    /\ KeysOf(adapters) = DOMAIN lastRegistered
    /\ \A n \in DOMAIN lastRegistered : Lookup(adapters, n) = lastRegistered[n]
    /\ (lastOp = "get" /\ ret.kind = "instance") =>
         /\ ret.name \in DOMAIN lastRegistered
         /\ ret.cls = lastRegistered[ret.name]
    /\ (lastOp = "get" /\ ret.kind = "none") => ret.name \notin DOMAIN lastRegistered
    /\ (lastOp = "list_all" /\ ret.kind = "list") =>
         /\ Len(ret.items) = Cardinality(DOMAIN lastRegistered)
         /\ \A i, j \in 1..Len(ret.items) :
              ClassName(ret.items[i]) = ClassName(ret.items[j]) => i = j
         /\ \A i \in 1..Len(ret.items) :
              ret.items[i] = lastRegistered[ClassName(ret.items[i])]

\* the built-in pbrt adapter was registered by its module, a caller's class
\* was registered under the same name afterwards, and get returns the latter
C4_Witness ==
    /\ lastOp = "get"
    /\ ret.kind = "instance"
    /\ ret.name = "pbrt"
    /\ ret.cls = "_FakePbrt"
    /\ "pbrt" \in sys_modules
    /\ Len(adapters) >= 2

(***************************************************************************)
(* Properties of the execution engines (specification SpecEngine)          *)
(***************************************************************************)
RanSubprocess == engine = "subprocess" /\ pc = "done"

\* the command ended by itself before the end time of communicate
ExitedBeforeTimeout ==
    /\ proc.state = "exited"
    /\ ~proc.killed
    /\ deadline # NoNum => Val(proc.exit_at) < Val(deadline)

\* ... and both of its output pipes were at end-of-file before that end time
FinishedBeforeTimeout ==
    /\ ExitedBeforeTimeout
    /\ EOF(proc, desc)
    /\ deadline # NoNum => Val(eof_at) < Val(deadline)

RunningAtTimeout ==
    /\ proc.state = "exited"
    /\ deadline # NoNum
    /\ proc.killed \/ Val(proc.exit_at) > Val(deadline)

\* C6 as stated: when the process is still running at the timeout,
\* run_subprocess returns no result and raises a RenderError that says the
\* process timed out and reports an elapsed time >= the timeout.
C6_Original ==
    (RanSubprocess /\ RunningAtTimeout) =>
        /\ result.kind = "RenderError"
        /\ result.msg = "Process timed out after"
        /\ result.after_tenths * TicksPerTenth >= Val(timeout)

\* C6 as amended: when the process is still running at the timeout,
\* run_subprocess returns no result and raises a RenderError that says the
\* process timed out; the elapsed time it measured is >= the timeout, and the
\* message prints that time rounded to one decimal, so the printed figure is
\* never more than half a tenth of a second below the timeout.
C6_TimeoutRaises ==
    /\ (RanSubprocess /\ RunningAtTimeout) =>
          timed_out /\ result.kind = "RenderError"
    /\ (RanSubprocess /\ timed_out) =>
          /\ result.kind = "RenderError"
          /\ result.msg = "Process timed out after"
          /\ result.limit = timeout
          /\ Val(elapsed) >= Val(timeout)
          /\ 2 * result.after_tenths * TicksPerTenth
                >= 2 * Val(elapsed) - TicksPerTenth
          /\ 2 * result.after_tenths * TicksPerTenth
                >= 2 * Val(timeout) - TicksPerTenth

\* the process ran into the timeout and was killed
C6_Witness ==
    /\ RanSubprocess
    /\ RunningAtTimeout
    /\ proc.killed
    /\ result.kind = "RenderError"
    /\ Val(elapsed) > Val(timeout)

\* C7: when the command cannot be located, run_subprocess raises
\* FileNotFoundError "Command not found", never starts a memory monitor or a
\* process, and never returns a SubprocessResult.
C7_CommandNotFound ==
    (engine = "subprocess" /\ cmdKind = "not_found") =>
        /\ mon.pc = "new"
        /\ mon.stops = 0
        /\ proc.state = "none"
        /\ result.kind # "result"
        /\ pc = "done" =>
             result.kind = "FileNotFoundError" /\ result.msg = "Command not found"

C7_Witness ==
    /\ RanSubprocess
    /\ cmdKind = "not_found"
    /\ result.kind = "FileNotFoundError"
    /\ mon.pc = "new"

\* C8: in both engines and on every exit path, whenever an elapsed-time or
\* peak-memory value is read into the result, the polling loop of the monitor
\* can no longer update the peak.
C8_MonitorStoppedBeforeRead == readLive = {}

\* C9: the monitor of an InProcessTimer region is stopped exactly once, however
\* the bracketed computation ends: not before the region ends, once when
\* __exit__ has run, never twice.
C9_StoppedExactlyOnce ==
    engine = "inprocess" =>
        /\ mon.stops <= 1
        /\ pc \in {"ip_enter", "ip_monitor", "ip_starttime", "ip_body", "ip_exit"}
              => mon.stops = 0 /\ ~mon.stop_event
        /\ pc = "done" => mon.stops = 1 /\ mon.stop_event

\* the bracketed computation raised, and the monitor was stopped once
C9_Witness ==
    /\ engine = "inprocess"
    /\ pc = "done"
    /\ exitKind = "raise"
    /\ mon.stops = 1
    /\ mon.pc = "done"

\* C10: after an InProcessTimer region exits, peak_memory_mb >= baseline_memory_mb
\* and elapsed_seconds >= 0, also when the region ends before the monitor
\* thread took its first sample.
C10_PeakAtLeastBaseline ==
    (engine = "inprocess" /\ pc = "done") =>
        /\ timer.peak_memory_mb >= timer.baseline_memory_mb
        /\ timer.elapsed_seconds >= 0

(***************************************************************************)
(* Properties of the registry, continued (specification Spec)              *)
(***************************************************************************)
RegisteredNames(ads) == [i \in 1..Len(ads) |-> ads[i].name]

\* C16: after clear_cache(), the next detect_all call probes every registered
\* adapter again and returns a newly computed mapping, not the dict that was
\* cached before; clear_cache itself changes the cached snapshot and nothing
\* else of the registry (the registered adapters, the bootstrap flag and the
\* imported modules stay as they were). In steps: clear_cache empties the
\* cache and leaves the rest; no operation but detect_all fills an empty cache;
\* and a detect_all that finds the cache empty probes every adapter and
\* returns a new dict.
C16_ClearCacheForcesReprobe ==
    [][ /\ lastOp' = "clear_cache" =>
              /\ detection_cache' = NoDict
              /\ adapters' = adapters
              /\ initialized' = initialized
              /\ sys_modules' = sys_modules
        /\ (detection_cache = NoDict /\ lastOp' # "detect_all") =>
              detection_cache' = NoDict
        /\ (detection_cache = NoDict /\ lastOp' = "detect_all") =>
              /\ ret'.kind = "dict"
              /\ ret'.computed
              /\ ret'.probed = RegisteredNames(adapters')
              /\ ret'.id = nextId
              /\ nextId' = nextId + 1
              /\ detection_cache' = [id |-> ret'.id, map |-> ret'.map]
      ]_vars

\* a second snapshot was computed although nothing was registered since the
\* first one: a clear_cache had emptied the cache
C16_Witness ==
    /\ lastOp = "detect_all"
    /\ ret.kind = "dict"
    /\ ret.computed
    /\ ret.id = 2
    /\ Len(ret.probed) >= 2
    /\ between = NoPending

\* C17: the lazy bootstrap tolerates individual load failures: when the import
\* of an adapter module raises, the operation that ran the bootstrap is not
\* failed by it, and every other module of the list is still imported and its
\* class registered.
C17_BootstrapTolerant ==
    [][ boot' # <<>> =>
          /\ initialized'
          /\ lastOp' = "detect_all" => ret'.kind = "dict"
          /\ \A i \in 1..Len(ADAPTER_MODULES) :
               boot'[i] = "ok" =>
                  /\ ADAPTER_MODULES[i] \in sys_modules'
                  /\ Lookup(adapters', ClassName(ModuleClass(ADAPTER_MODULES[i])))
                        = ModuleClass(ADAPTER_MODULES[i])
      ]_vars

\* the first module of the list failed to load and the second one is
\* registered all the same
C17_Witness ==
    /\ boot # <<>>
    /\ boot[1] = "fails"
    /\ boot[2] = "ok"
    /\ ADAPTER_MODULES[1] \notin sys_modules
    /\ ADAPTER_MODULES[2] \in sys_modules
    /\ Lookup(adapters, ADAPTER_MODULES[2]) = ModuleClass(ADAPTER_MODULES[2])
    /\ initialized

(***************************************************************************)
(* Properties of RenderError (specification SpecError)                     *)
(***************************************************************************)
OutputParts(e) == {i \in 1..Len(e.message) : e.message[i].part = "output"}

\* C18: a RenderError built with an output whose stripped length exceeds 2000
\* characters carries in its message the first 2000 characters of the stripped
\* output followed by the truncation marker; a stripped output of at most 2000
\* characters is in the message in full, without the marker; an output that
\* is only whitespace is left out of the message.
C18_OutputTruncated ==
    (e_pc = "built" /\ e_args.stderr_output # NoText) =>
       LET t == e_args.stderr_output[1]
           out == OutputParts(e_error)
       IN  /\ t.body > 2000 =>
                /\ Cardinality(out) = 1
                /\ \A i \in out :
                     /\ e_error.message[i].text = Slice(t.lead + 1, 2000)
                     /\ e_error.message[i].marker
           /\ (t.body > 0 /\ t.body <= 2000) =>
                /\ Cardinality(out) = 1
                /\ \A i \in out :
                     /\ e_error.message[i].text = Slice(t.lead + 1, t.body)
                     /\ ~e_error.message[i].marker
           /\ t.body = 0 => out = {}

\* an output of exactly 2000 characters between whitespace went in whole, and
\* the exit code is in the message too
C18_Witness ==
    /\ e_pc = "built"
    /\ e_args.stderr_output = Text(1, 2000, 1)
    /\ e_args.exit_code = Num(42)
    /\ Len(e_error.message) = 3
    /\ e_error.message[3].text = Slice(2, 2000)
    /\ ~e_error.message[3].marker

(***************************************************************************)
(* Properties of supported_formats() (specification SpecFormats)           *)
(***************************************************************************)
\* C15: supported_formats() returns a non-empty list; two calls return equal
\* lists that are distinct objects, so whatever a caller does to a returned
\* list, every later call still returns the adapter's formats and render()
\* accepts the same suffixes as before.
C15_FreshNonEmptyList ==
    /\ \A i \in 1..Len(f_rets) :
         /\ f_rets[i].items # <<>>
         /\ f_rets[i].items = SUPPORTED_FORMATS(f_adapter)
    /\ \A i, j \in 1..Len(f_rets) :
         i < j => /\ f_rets[i].ref # f_rets[j].ref
                  /\ f_rets[i].items = f_rets[j].items
    /\ f_adapter # None => Accepted(f_adapter, f_table) = f_before

\* the list of the first call was emptied by the caller before the second
\* call returned
C15_Witness ==
    /\ Len(f_rets) >= 2
    /\ Items(f_rets[1].ref) = <<>>
    /\ f_rets[2].items # <<>>
    /\ Items(f_rets[2].ref) = f_rets[2].items

(***************************************************************************)
(* Properties of the adapters (specification SpecRender)                   *)
(***************************************************************************)
RenderDone == r_op = "render" /\ r_pc = "done"

Raised(type) == r_out.kind = "raise" /\ r_out.type = type

Happened(event) == \E i \in 1..Len(r_events) : r_events[i] = event

\* the suffix of the scene file has an entry in the adapter's table
SuffixInTable ==
    IF r_adapter = "pbrt"
    THEN r_scene.suffix.name = "pbrt" /\ ~r_scene.suffix.upper
    ELSE r_scene.suffix.name \in EXT_TO_FORMAT(r_adapter)

\* the extension of the scene file, as it is written, is one of the strings
\* of supported_formats()
SuffixListed ==
    /\ ~r_scene.suffix.upper
    /\ r_scene.suffix.name \in SeqToSet(SUPPORTED_FORMATS(r_adapter))

\* C11: when the renderer is not installed, that is when the adapter's
\* detect() returns None, render() fails with RendererNotFoundError and with
\* no other error, whatever the scene path and its existence.
C11_NotInstalledRaisesNotFound ==
    (RenderDone /\ Detect(r_adapter, r_env).value = None)
        => Raised("RendererNotFoundError")

\* C12 as stated: a render() call on a scene file whose extension is absent
\* from supported_formats() always fails with SceneFormatError, before any
\* process is spawned and before any binding is invoked during that call.
C12_Original ==
    (RenderDone /\ ~SuffixListed) =>
        /\ Raised("SceneFormatError")
        /\ ~Happened("probe") /\ ~Happened("run") /\ ~Happened("bind")

\* C12 as amended: when the installation check of render() has passed, a
\* scene file whose suffix has no entry in the adapter's extension table
\* makes render() fail with SceneFormatError before the render command is
\* run, before the binding is called and before the output directory is made.
C12_UnsupportedSuffixRejected ==
    (RenderDone /\ InstallCheck(r_adapter, r_env).value # None /\ ~SuffixInTable) =>
        /\ Raised("SceneFormatError")
        /\ ~Happened("run") /\ ~Happened("bind") /\ ~Happened("mkdir")

\* luxcore found through its command-line tool, whose version command was run
\* by the installation check, rejected a .txt scene
C12_Witness ==
    /\ RenderDone
    /\ r_adapter = "luxcore"
    /\ r_path = "cli"
    /\ r_scene.suffix.name = "txt"
    /\ Raised("SceneFormatError")
    /\ Happened("probe")

\* C13 as stated: a render() call whose scene path does not exist always
\* fails with a RenderError that says "not found", and the render command or
\* binding is never executed for that call.
C13_Original ==
    (RenderDone /\ ~r_scene.exists) =>
        /\ r_out = Raise("RenderError", "Scene file not found")
        /\ ~Happened("run") /\ ~Happened("bind")

\* C13 as amended: when the installation check of render() has passed and the
\* suffix of the scene file is in the adapter's extension table, a scene path
\* that does not exist makes render() fail with the RenderError "Scene file
\* not found", and neither the render command nor the binding is executed nor
\* the output directory made.
C13_MissingSceneRejected ==
    (RenderDone /\ InstallCheck(r_adapter, r_env).value # None /\ SuffixInTable
       /\ ~r_scene.exists) =>
        /\ r_out = Raise("RenderError", "Scene file not found")
        /\ ~Happened("run") /\ ~Happened("bind") /\ ~Happened("mkdir")

\* ospray, found on PATH, was given a .sg scene path that does not exist
C13_Witness ==
    /\ RenderDone
    /\ r_adapter = "ospray"
    /\ r_env.binary
    /\ r_scene.suffix = [name |-> "sg", upper |-> FALSE]
    /\ ~r_scene.exists
    /\ r_out = Raise("RenderError", "Scene file not found")
    /\ r_events = <<"probe">>

\* C14: in every environment (binary present or absent, version command
\* failing, binding import failing, version text empty or unparseable)
\* detect() raises nothing and returns None or a non-empty string.
C14_DetectNoneOrNonEmpty ==
    (r_op = "detect" /\ r_pc = "done") =>
        /\ r_out.kind = "return"
        /\ r_out.reason # ""

\* C19: every failure of render() is a RendererNotFoundError, a
\* SceneFormatError or a RenderError; no failure of the execution engine, a
\* command that cannot be spawned included, leaves render() as another type.
C19_OnlyTypedFailures ==
    (RenderDone /\ r_out.kind = "raise") =>
        r_out.type \in {"RendererNotFoundError", "SceneFormatError", "RenderError"}

\* the file that the result of render() names: pbrt falls back to a sibling
\* of output_path
ReportedFile ==
    IF r_adapter = "pbrt" /\ r_file = "missing" THEN r_alt ELSE r_file

\* C20: an adapter that ran its render command never returns a RenderResult
\* when the command exited with a non-zero code, when the output file is
\* missing or when it exists but is empty: it fails with RenderError.
C20_NoResultWithoutOutput ==
    (RenderDone /\ r_run # NoNum
       /\ (Val(r_run) # 0 \/ ReportedFile = "missing" \/ ReportedFile = "empty"))
        => Raised("RenderError")

\* C21: for every adapter that renders in a separate process and every
\* RenderSettings value, the timeout passed to run_subprocess is the time
\* budget whenever settings.time_budget is not None, otherwise the adapter's
\* own default if it has one, otherwise None (no limit).
C21_TimeoutResolved ==
    (r_op = "render" /\ Happened("run")) =>
        r_timeout = IF r_settings.time_budget # NoNum THEN r_settings.time_budget
                    ELSE IF r_adapter = "filament" THEN Num(FilamentDefaultTimeout)
                    ELSE NoNum

\* C23: in a render() call that has passed the installation, format and
\* scene-existence checks, the parent directory of the output path exists
\* when the call runs its render command or calls into its binding.
C23_OutputDirBeforeDispatch ==
    (r_op = "render" /\ (Happened("run") \/ Happened("bind"))) => r_dir

\* the executions of the render command or of the binding in this call
RenderAttempts ==
    Cardinality({i \in 1..Len(r_events) : r_events[i] \in {"run", "bind"}})

\* C28: within one render() call the render command or the binding is
\* executed at most once, and once the command has exited with a non-zero
\* code the call goes to its exit-code check and ends by raising, without
\* running the command again.
C28_NoRetry ==
    r_op = "render" =>
        /\ RenderAttempts <= 1
        /\ (r_run # NoNum /\ Val(r_run) # 0) =>
              \/ r_pc = "output"
              \/ r_pc = "done" /\ r_out.kind = "raise"
        /\ (r_pc = "done" /\ r_out.kind = "return") =>
              (r_run # NoNum => Val(r_run) = 0)

\* appleseed ran its command once, the command exited with 42 and render()
\* raised RenderError
C28_Witness ==
    /\ RenderDone
    /\ r_adapter = "appleseed"
    /\ r_run = Num(42)
    /\ RenderAttempts = 1
    /\ r_out = Raise("RenderError", "Non-zero exit code")

\* C22: once detection has chosen an integration path for an instance of a
\* dual-path adapter (luxcore, ospray), every later render() call on that
\* instance dispatches to that path, even if the availability of the binding
\* or of the command-line tool changes between the calls.
C22_PathKept ==
    \A i \in 1..Len(p_used) : p_used[i] = Dispatch(p_first)

\* C24: when run_subprocess times out, no process of the spawned tree is
\* still running when the timeout failure is raised: the spawned process and
\* all its descendants have been killed.
C24_TreeKilledOnTimeout ==
    (RanSubprocess /\ timed_out) =>
        /\ proc.state = "exited"
        /\ desc \notin {"alive", "detached"}

\* C27: in both engines the monitor is started before the instant from which
\* elapsed time is measured: once start_time holds that instant, the monitor
\* has been started.
C27_MonitorBeforeTimedRegion ==
    /\ (engine = "subprocess" /\ pc # "rs_start") => mon.pc # "new"
    /\ (engine = "inprocess" /\ pc \notin {"ip_enter", "ip_monitor", "ip_starttime"})
          => mon.pc # "new"

\* the end time of communicate(timeout=timeout) has come while run_subprocess
\* waits in it
TimeoutExpired ==
    /\ engine = "subprocess"
    /\ pc = "rs_wait"
    /\ deadline # NoNum
    /\ now >= Val(deadline)

\* C25: when the configured timeout expires, run_subprocess returns control
\* to its caller in the end, whatever the spawned process does, also when it
\* has started descendants that stay alive and keep the output pipes open.
C25_TimeoutReturns == TimeoutExpired ~> (pc = "done")

\* C30: when a caller has registered class X under name n before the lazy
\* bootstrap has run, the first later get(n), which runs the bootstrap,
\* returns an instance of X: the registrations the bootstrap makes never
\* replace the caller's earlier registration of the same name.
C30_CallerRegistrationKept ==
    [][(/\ ~initialized
        /\ lastOp' = "get"
        /\ ret'.kind = "instance"
        /\ Lookup(adapters, ret'.name) \in UserClasses)
          => ret'.cls = Lookup(adapters, ret'.name)]_vars

\* C26: under any interleaving of register, clear_cache and detect_all
\* calls, every mapping a caller gets from detect_all has an entry (a version
\* or None) for every adapter that was registered when the computation of
\* that mapping started.
C26_SnapshotComplete ==
    \A d \in Detectors :
        det[d].ret.kind = "dict" => det[d].ret.start \subseteq DOMAIN det[d].ret.map

\* a detect_all computed and returned a mapping with an entry for an adapter
\* while a register call completed on the other thread
C26_Witness ==
    \E d \in Detectors :
        /\ det[d].ret.kind = "dict"
        /\ det[d].ret.computed
        /\ det[d].ret.overlapped
        /\ det[d].ret.start # {}
        /\ det[d].ret.start \subseteq DOMAIN det[d].ret.map

\* C29: if register(X) completes on one thread while a detect_all
\* computation is in progress on another, every detect_all call that starts
\* after both have ended returns a mapping that contains X's name.
C29_NoStaleSnapshot ==
    \A d \in Detectors :
        det[d].ret.kind = "dict" => det[d].need \subseteq DOMAIN det[d].ret.map

====
